---- MODULE Spec2Model ----
(***************************************************************************)
(* luup-agent: the agent orchestration engine (src/src/core/agent.cpp),    *)
(* the tool-call protocol (src/src/core/tool_calling.cpp) and the          *)
(* summarization tool (src/src/builtin_tools/summarization.cpp).           *)
(*                                                                         *)
(* Text is modelled as a sequence of chunks.  The four characters the      *)
(* brace matcher of parse_tool_calls tells apart ( {  }  "  \ ) are always *)
(* chunks of their own; every other chunk stands for a run of characters   *)
(* none of which is one of those four.                                     *)
(***************************************************************************)
EXTENDS Integers, Sequences, FiniteSets, TLC

(***************************************************************************)
(* Bounds of the exploration.                                              *)
(***************************************************************************)
MaxReentries == 2
MaxHistory == 2

(***************************************************************************)
(* Text helpers.                                                           *)
(***************************************************************************)
Empty == << >>

RECURSIVE Concat(_)
Concat(ss) == IF ss = << >> THEN << >> ELSE Head(ss) \o Concat(Tail(ss))

RECURSIVE Join(_, _)
Join(ss, sep) ==
    IF ss = << >> THEN << >>
    ELSE IF Len(ss) = 1 THEN ss[1]
    ELSE ss[1] \o sep \o Join(Tail(ss), sep)

\* std::string::size() of each piece of text the model is built from.
ChunkSize(c) ==
    CASE c = "\"" -> 1
      [] c = "true" -> 4
      [] c = "false" -> 5
      [] c = "" -> 0
      [] c = "[" -> 1
      [] c = "," -> 1
      [] c = "]" -> 1
      [] c = "{" -> 1
      [] c = ":" -> 1
      [] c = "}" -> 1
      [] c = "a" -> 1
      [] c = "b" -> 1
      [] c = "2" -> 1
      [] c = "3" -> 1
      [] c = "operation" -> 9
      [] c = "trigger" -> 7
      [] c = "name" -> 4
      [] c = "parameters" -> 10
      [] c = "tool_calls" -> 10
      [] c = "add" -> 3
      [] c = "summarization" -> 13
      [] c = "nope" -> 4
      [] c = "5" -> 1
      [] c = "done" -> 4
      [] c = "I think " -> 8
      [] c = " this is not valid json" -> 23
      [] c = "Calling: " -> 9
      [] c = "\\" -> 1
      [] c = "error" -> 5
      [] c = "tool_name" -> 9
      [] c = "Tool execution failed" -> 21
      [] c = "Tool not found" -> 14
      [] c = "Tool '" -> 6
      [] c = "' returned:\n" -> 12
      [] c = "[Previous conversation summary]: " -> 33
      [] c = "system" -> 6
      [] c = "status" -> 6
      [] c = "message" -> 7
      [] c = "success" -> 7
      [] c = "Summarization applied" -> 21
      [] c = "Summarization not enabled or agent invalid" -> 42
      [] c = "enable" -> 6
      [] c = "Summarization enabled" -> 21
      [] c = "disable" -> 7
      [] c = "Summarization disabled" -> 22
      [] c = "Unknown operation: " -> 19
      [] c = "Test system" -> 11
      [] c = "add 2 and 3" -> 11
      [] c = "Hello" -> 5
      [] c = "S" -> 1
      [] c = "todo" -> 4
      [] c = "notes" -> 5
      [] c = "user" -> 4
      [] c = "assistant" -> 9
      [] c = "sum" -> 3
      [] c = "product" -> 7
      [] c = "6" -> 1
      [] c = "boom" -> 4
      [] c = "\n" -> 1
      [] c = "Could you tell me a little more about item seven?!" -> 50
      [] c = "Certainly, here is some more detail for that item." -> 50
      [] c = "System: " -> 8
      [] c = "User: " -> 6
      [] c = "Assistant: " -> 11
      [] c = "\n\n" -> 2
      [] c = "Hi" -> 2

Quoted(s) == <<"\"", s, "\"">>

(***************************************************************************)
(* JSON values (nlohmann::json, an external library).  Every value is a    *)
(* record of the same shape: t is the type, s the literal of a string or a *)
(* number, keys the keys of an object in the library's (sorted) order, and *)
(* kids the members of an object or the elements of an array.              *)
(***************************************************************************)
JStr(s) == [t |-> "str", s |-> s, keys |-> << >>, kids |-> << >>]
JNum(s) == [t |-> "num", s |-> s, keys |-> << >>, kids |-> << >>]
JBool(b) == [t |-> "bool", s |-> IF b THEN "true" ELSE "false", keys |-> << >>, kids |-> << >>]
JArr(kids) == [t |-> "arr", s |-> "", keys |-> << >>, kids |-> kids]
JObj(keys, kids) == [t |-> "obj", s |-> "", keys |-> keys, kids |-> kids]

JContains(j, key) == j.t = "obj" /\ \E i \in 1..Len(j.keys) : j.keys[i] = key
JAt(j, key) == j.kids[CHOOSE i \in 1..Len(j.keys) : j.keys[i] = key]

\* json::dump(): the compact serialization.
RECURSIVE JDump(_)
JDump(j) ==
    CASE j.t = "str" -> Quoted(j.s)
      [] j.t = "num" -> <<j.s>>
      [] j.t = "bool" -> <<j.s>>
      [] j.t = "arr" ->
            <<"[">> \o Join([i \in 1..Len(j.kids) |-> JDump(j.kids[i])], <<",">>) \o <<"]">>
      [] j.t = "obj" ->
            <<"{">>
            \o Join([i \in 1..Len(j.kids) |->
                        Quoted(j.keys[i]) \o <<":">> \o JDump(j.kids[i])], <<",">>)
            \o <<"}">>

\* Every object inside a value, the value included.
RECURSIVE JObjects(_)
JObjects(j) ==
    (IF j.t = "obj" THEN {j} ELSE {})
    \cup UNION {JObjects(j.kids[i]) : i \in 1..Len(j.kids)}

(***************************************************************************)
(* The documents a backend answers with in this model.                     *)
(***************************************************************************)
ParamsAdd == JObj(<<"a", "b">>, <<JNum("2"), JNum("3")>>)
ParamsTrigger == JObj(<<"operation">>, <<JStr("trigger")>>)
ParamsNone == JObj(<< >>, << >>)

CallObj(name, params) == JObj(<<"name", "parameters">>, <<JStr(name), params>>)
Envelope(calls) == JObj(<<"tool_calls">>, <<JArr(calls)>>)

DocAdd == Envelope(<<CallObj("add", ParamsAdd)>>)
DocTrigger == Envelope(<<CallObj("summarization", ParamsTrigger)>>)
DocAddNope == Envelope(<<CallObj("add", ParamsAdd), CallObj("nope", ParamsNone)>>)
DocNopeAdd == Envelope(<<CallObj("nope", ParamsNone), CallObj("add", ParamsAdd)>>)
DocDirect == CallObj("add", ParamsNone)
DocNameOnly == JObj(<<"name">>, <<JStr("add")>>)

\* An envelope whose second element has a number for a name, an object that
\* is no envelope with a call object inside, and an envelope whose call has a
\* call object for its parameters.
DocBadSecond ==
    Envelope(<<CallObj("add", ParamsAdd),
               JObj(<<"name", "parameters">>, <<JNum("5"), ParamsNone>>)>>)
DocNested == JObj(<<"note">>, <<CallObj("add", ParamsNone)>>)
DocNestedParams == Envelope(<<CallObj("nope", CallObj("add", ParamsNone))>>)

TopDocs ==
    {DocAdd, DocTrigger, DocAddNope, DocNopeAdd, DocDirect, DocNameOnly,
     DocBadSecond, DocNested, DocNestedParams}

\* The parameters of the other operations of the summarization tool.
OperationDocs ==
    {JObj(<<"operation">>, <<JStr(operation)>>) :
        operation \in {"status", "enable", "disable"}}

\* Every JSON object that occurs in a text of the model.
JsonDocs == UNION {JObjects(d) : d \in TopDocs \cup OperationDocs}

\* The dump of each document, computed once.
JsonDocText == [d \in JsonDocs |-> JDump(d)]

\* json::parse on a slice that starts with an opening brace: the document the
\* slice is the text of, if any (the slices of the model carry no white space).
JsonValid(slice) == \E d \in JsonDocs : JsonDocText[d] = slice
JsonParse(slice) == CHOOSE d \in JsonDocs : JsonDocText[d] = slice

(***************************************************************************)
(* The texts a backend answers with.                                       *)
(***************************************************************************)
TextFive == <<"5">>
TextDone == <<"done">>
TextMalformed == <<"I think ", "{", " this is not valid json">>
TextAdd == JDump(DocAdd)
TextTrigger == JDump(DocTrigger)
TextAddNope == JDump(DocAddNope)
TextNopeAdd == JDump(DocNopeAdd)
TextDirect == <<"Calling: ">> \o JDump(DocDirect)
TextNameOnly == JDump(DocNameOnly)

Outputs ==
    {TextFive, TextDone, TextMalformed, TextAdd, TextTrigger, TextAddNope,
     TextNopeAdd, TextDirect, TextNameOnly}

\* The texts the backend of one run answers with: one of these sets.
Repertoires ==
    <<{TextFive, TextAdd, TextTrigger},
      {TextFive, TextAddNope, TextNopeAdd},
      {TextDone, TextMalformed, TextNameOnly, TextDirect}>>

(***************************************************************************)
(* parse_tool_calls (tool_calling.cpp).                                    *)
(***************************************************************************)
ToolCall(name, params) == [tool_name |-> name, parameters_json |-> params]

\* The state of the loop of extract_json; closed is the position of the brace
\* that brings brace_count back to 0 (0 while there is none).
ScanState(brace_count, in_string, escape_next, closed) ==
    [brace_count |-> brace_count, in_string |-> in_string,
     escape_next |-> escape_next, closed |-> closed]

\* One iteration of the while loop of extract_json, on the character at i.
ScanStep(str, i, st) ==
    LET c == str[i] IN
    IF st.escape_next THEN [st EXCEPT !.escape_next = FALSE]
    ELSE IF c = "\\" /\ st.in_string THEN [st EXCEPT !.escape_next = TRUE]
    ELSE IF c = "\"" THEN [st EXCEPT !.in_string = ~st.in_string]
    ELSE IF ~st.in_string /\ c = "{"
         THEN [st EXCEPT !.brace_count = st.brace_count + 1]
    ELSE IF ~st.in_string /\ c = "}"
         THEN IF st.brace_count - 1 = 0
              THEN [st EXCEPT !.brace_count = 0, !.closed = i]
              ELSE [st EXCEPT !.brace_count = st.brace_count - 1]
    ELSE st

\* The iterations on positions lo..hi in order, stopping at the closing brace
\* (the range is halved only to keep the evaluation shallow).
RECURSIVE ScanRange(_, _, _, _)
ScanRange(str, lo, hi, st) ==
    IF st.closed # 0 \/ lo > hi THEN st
    ELSE IF lo = hi THEN ScanStep(str, lo, st)
    ELSE LET mid == (lo + hi) \div 2
             left == ScanRange(str, lo, mid, st)
         IN  ScanRange(str, mid + 1, hi, left)

\* The lambda extract_json: the brace-matched slice at start_pos, or the empty
\* text.
extract_json(str, start_pos) ==
    IF start_pos > Len(str) \/ str[start_pos] # "{" THEN Empty
    ELSE LET st == ScanRange(str, start_pos, Len(str), ScanState(0, FALSE, FALSE, 0)) IN
         IF st.closed = 0 THEN Empty ELSE SubSeq(str, start_pos, st.closed)

\* text.find('{', pos): the first position >= pos holding an opening brace, or 0.
FindBrace(text, pos) ==
    IF \E i \in pos..Len(text) : text[i] = "{"
    THEN CHOOSE i \in pos..Len(text) :
            text[i] = "{" /\ \A k \in pos..(i - 1) : text[k] # "{"
    ELSE 0

\* The loop over j["tool_calls"]: the calls pushed, and whether get<std::string>
\* raised json::type_error on a name that is no string (the calls pushed before
\* it stay in the list).
RECURSIVE ScanCalls(_, _, _)
ScanCalls(arr, k, acc) ==
    IF k > Len(arr) THEN [calls |-> acc, threw |-> FALSE]
    ELSE LET call == arr[k] IN
         IF JContains(call, "name") /\ JContains(call, "parameters")
         THEN IF JAt(call, "name").t # "str"
              THEN [calls |-> acc, threw |-> TRUE]
              ELSE ScanCalls(arr, k + 1,
                     Append(acc, ToolCall(JAt(call, "name").s,
                                          JDump(JAt(call, "parameters")))))
         ELSE ScanCalls(arr, k + 1, acc)

\* ParseFrom with a direct form that asks for the name only (operator[] then
\* yields null for the missing parameters).
RECURSIVE ParseFrom_NameOnly(_, _, _)
ParseFrom_NameOnly(text, pos, tool_calls) ==
    LET p == FindBrace(text, pos) IN
    IF p = 0 THEN tool_calls
    ELSE LET json_str == extract_json(text, p) IN
         IF json_str # Empty /\ JsonValid(json_str)
         THEN LET j == JsonParse(json_str) IN
              IF JContains(j, "tool_calls") /\ JAt(j, "tool_calls").t = "arr"
              THEN LET r == ScanCalls(JAt(j, "tool_calls").kids, 1, tool_calls) IN
                   IF r.threw THEN ParseFrom_NameOnly(text, p + 1, r.calls) ELSE r.calls
              ELSE IF JContains(j, "name")
              THEN Append(tool_calls,
                          ToolCall(JAt(j, "name").s,
                                   IF JContains(j, "parameters")
                                   THEN JDump(JAt(j, "parameters")) ELSE <<"null">>))
              ELSE ParseFrom_NameOnly(text, p + 1, tool_calls)
         ELSE ParseFrom_NameOnly(text, p + 1, tool_calls)

\* The while loop of parse_tool_calls from position pos on, with the calls
\* collected so far.
RECURSIVE ParseFrom(_, _, _)
ParseFrom(text, pos, tool_calls) ==
    LET p == FindBrace(text, pos) IN
    IF p = 0 THEN tool_calls
    ELSE LET json_str == extract_json(text, p) IN
         IF json_str # Empty /\ JsonValid(json_str)
         THEN LET j == JsonParse(json_str) IN
              IF JContains(j, "tool_calls") /\ JAt(j, "tool_calls").t = "arr"
              THEN LET r == ScanCalls(JAt(j, "tool_calls").kids, 1, tool_calls) IN
                   IF r.threw THEN ParseFrom(text, p + 1, r.calls) ELSE r.calls
              ELSE IF JContains(j, "name") /\ JContains(j, "parameters")
              THEN IF JAt(j, "name").t # "str"
                   THEN ParseFrom(text, p + 1, tool_calls)
                   ELSE Append(tool_calls,
                               ToolCall(JAt(j, "name").s, JDump(JAt(j, "parameters"))))
              ELSE ParseFrom(text, p + 1, tool_calls)
         ELSE ParseFrom(text, p + 1, tool_calls)

parse_tool_calls(text) == ParseFrom(text, 1, << >>)

\* parse_tool_calls on each text of the model, computed once.
ParsedCalls == [o \in Outputs |-> parse_tool_calls(o)]

(***************************************************************************)
(* execute_tool and format_tool_result (tool_calling.cpp).                 *)
(***************************************************************************)
ToolInfo(callback, user_data) == [callback |-> callback, user_data |-> user_data]

\* The JSON object execute_tool builds for a call that failed.
ToolError(msg, tool_name) ==
    JDump(JObj(<<"error", "tool_name">>, <<JStr(msg), JStr(tool_name)>>))

\* What a callback does when it is invoked: it returns a text, returns null,
\* raises a std::exception (text is then e.what()) or raises something that is
\* not a std::exception.
Returned(text) == [how |-> "text", text |-> text]
ReturnedNull == [how |-> "null", text |-> Empty]
Raised(what) == [how |-> "throw", text |-> <<what>>]
RaisedOther == [how |-> "throw_other", text |-> Empty]

\* Whether what the callback raises passes the handler
\* `catch (const std::exception& e)` of execute_tool, the only handler there is.
Escapes(tool_name, registry, run) ==
    tool_name \in DOMAIN registry /\ run.how = "throw_other"

\* execute_tool without the lookup failure: an unknown name is reported like a
\* callback that returned null.
execute_tool_NoLookup(tool_name, parameters_json, registry, run) ==
    IF tool_name \notin DOMAIN registry
    THEN ToolError("Tool execution failed", tool_name)
    ELSE IF run.how = "text" THEN run.text
    ELSE IF run.how = "null" THEN ToolError("Tool execution failed", tool_name)
    ELSE ToolError(run.text[1], tool_name)

\* execute_tool: the result of one call that returns; run is what the callback
\* does if the name is registered and the callback is therefore invoked.
execute_tool(tool_name, parameters_json, registry, run) ==
    IF tool_name \notin DOMAIN registry
    THEN ToolError("Tool not found", tool_name)
    ELSE IF run.how = "text" THEN run.text
    ELSE IF run.how = "null" THEN ToolError("Tool execution failed", tool_name)
    ELSE ToolError(run.text[1], tool_name)

format_tool_result(tool_name, result_json) ==
    <<"Tool '", tool_name, "' returned:\n">> \o result_json

(***************************************************************************)
(* The summarization tool (summarization.cpp).                             *)
(***************************************************************************)
Message(role, content) == [role |-> role, content |-> content]

SummaryPrefix == "[Previous conversation summary]: "

\* std::string::size() of a text.
RECURSIVE Size(_)
Size(text) == IF text = << >> THEN 0 ELSE ChunkSize(Head(text)) + Size(Tail(text))

\* estimate_token_count (context_manager.cpp): size / 4 in size_t.
estimate_token_count(text) == Size(text) \div 4

\* The context size of the agent's model, which
\* luup_agent_enable_builtin_summarization copies into the state.
ContextSize == 100

\* The sum the status operation reports as current_tokens.
RECURSIVE CurrentTokens(_)
CurrentTokens(hist) ==
    IF hist = << >> THEN 0
    ELSE estimate_token_count(Head(hist).content) + CurrentTokens(Tail(hist))

\* SummarizationState::should_summarize: the estimate, with 10 tokens of
\* overhead a message, against context_size * threshold (threshold is 0.75f).
should_summarize(hist, enabled) ==
    /\ enabled
    /\ 4 * (CurrentTokens(hist) + 10 * Len(hist)) >= 3 * ContextSize

\* static_cast<size_t>(history.size() * 0.6)
NumToSummarize(n) == (6 * n) \div 10

\* generate_summary: the text the backend gave (summary_out), or the empty text
\* when the history is empty or the backend failed.
generate_summary(hist, summary_out) ==
    IF hist = << >> THEN Empty
    ELSE IF summary_out.how # "text" THEN Empty
    ELSE summary_out.text

\* Whether apply_summarization replaces the history.
SummarizationApplies(hist, summary_out) ==
    /\ generate_summary(hist, summary_out) # Empty
    /\ NumToSummarize(Len(hist)) >= 2

\* apply_summarization that does not keep the system message at position 0.
apply_summarization_DropSystem(hist, summary_out) ==
    LET summary == generate_summary(hist, summary_out)
        n == NumToSummarize(Len(hist))
    IN  IF summary = Empty THEN hist
        ELSE IF n < 2 THEN hist
        ELSE <<[role |-> "system", content |-> <<SummaryPrefix>> \o summary]>>
             \o SubSeq(hist, n + 1, Len(hist))

\* apply_summarization whose copy loop stops before the last message.
apply_summarization_DropsLast(hist, summary_out) ==
    LET summary == generate_summary(hist, summary_out)
        n == NumToSummarize(Len(hist))
    IN  IF summary = Empty THEN hist
        ELSE IF n < 2 THEN hist
        ELSE LET keep_system == hist[1].role = "system"
                 num_to_summarize == IF keep_system THEN n - 1 ELSE n
                 start_idx == IF keep_system THEN num_to_summarize + 1
                              ELSE num_to_summarize
                 summary_msg == Message("system", <<SummaryPrefix>> \o summary)
             IN  (IF keep_system THEN <<hist[1]>> ELSE << >>)
                 \o <<summary_msg>>
                 \o SubSeq(hist, start_idx + 1, Len(hist) - 1)

\* apply_summarization: the history it leaves.
apply_summarization(hist, summary_out) ==
    LET summary == generate_summary(hist, summary_out)
        n == NumToSummarize(Len(hist))
    IN  IF summary = Empty THEN hist
        ELSE IF n < 2 THEN hist
        ELSE LET keep_system == hist[1].role = "system"
                 num_to_summarize == IF keep_system THEN n - 1 ELSE n
                 start_idx == IF keep_system THEN num_to_summarize + 1
                              ELSE num_to_summarize
                 summary_msg == Message("system", <<SummaryPrefix>> \o summary)
             IN  (IF keep_system THEN <<hist[1]>> ELSE << >>)
                 \o <<summary_msg>>
                 \o SubSeq(hist, start_idx + 1, Len(hist))

\* params.value("operation", "status") of the callback's parsed parameters.
SumOperation(params_json) ==
    IF JsonValid(params_json) /\ JContains(JsonParse(params_json), "operation")
    THEN JAt(JsonParse(params_json), "operation").s
    ELSE "status"

SumSuccess(message) ==
    JDump(JObj(<<"message", "success">>, <<JStr(message), JBool(TRUE)>>))
SumError(message) == JDump(JObj(<<"error">>, <<JStr(message)>>))

\* The object the status operation returns (its numbers are not modelled).
SumStatus == <<"{", "status", "}">>

\* summarization_tool_callback whose trigger does not look at the enabled flag.
summarization_tool_callback_AlwaysApplies(params_json, hist, enabled, summary_out) ==
    LET operation == SumOperation(params_json) IN
    CASE operation = "status" ->
            [result |-> SumStatus, history |-> hist, enabled |-> enabled]
      [] operation = "trigger" ->
            [result |-> SumSuccess("Summarization applied"),
             history |-> apply_summarization(hist, summary_out),
             enabled |-> enabled]
      [] operation = "enable" ->
            [result |-> SumSuccess("Summarization enabled"),
             history |-> hist, enabled |-> TRUE]
      [] operation = "disable" ->
            [result |-> SumSuccess("Summarization disabled"),
             history |-> hist, enabled |-> FALSE]
      [] OTHER ->
            [result |-> SumError("Unknown operation: " \o operation),
             history |-> hist, enabled |-> enabled]

\* summarization_tool_callback: the text returned, the history and the enabled
\* flag it leaves.
summarization_tool_callback(params_json, hist, enabled, summary_out) ==
    LET operation == SumOperation(params_json) IN
    CASE operation = "status" ->
            [result |-> SumStatus, history |-> hist, enabled |-> enabled]
      [] operation = "trigger" ->
            IF enabled
            THEN [result |-> SumSuccess("Summarization applied"),
                  history |-> apply_summarization(hist, summary_out),
                  enabled |-> enabled]
            ELSE [result |-> SumError("Summarization not enabled or agent invalid"),
                  history |-> hist, enabled |-> enabled]
      [] operation = "enable" ->
            [result |-> SumSuccess("Summarization enabled"),
             history |-> hist, enabled |-> TRUE]
      [] operation = "disable" ->
            [result |-> SumSuccess("Summarization disabled"),
             history |-> hist, enabled |-> FALSE]
      [] OTHER ->
            [result |-> SumError("Unknown operation: " \o operation),
             history |-> hist, enabled |-> enabled]

----------------------------------------------------------------------------
\* The todo and notes tools and their files.

IntMax == 2147483647
IntMin == -IntMax - 1

\* next_id++ and id + 1 on an int. At INT_MAX the addition overflows, which is
\* undefined: the value left is any of these.
Overflowed == {IntMin, 0, IntMax}
Increment(n) == IF n = IntMax THEN Overflowed ELSE {n + 1}

MaxStoreAdds == 3

\* The integers that occur as ids, and their literals in a JSON text.
IdValues == (IntMin..(IntMin + MaxStoreAdds + 1)) \cup (0..(MaxStoreAdds + 4)) \cup {IntMax}
Numerals == {ToString(n) : n \in IdValues}
\* json::get<int>() of a number with the literal s.
IntOf(s) == CHOOSE n \in IdValues : ToString(n) = s

\* The keys of the objects of this model in the order of std::map<std::string>.
KeyOrder ==
    <<"completed", "content", "count", "created", "error", "id", "message", "modified",
      "note", "notes", "operation", "status", "success", "tags", "title", "todo", "todos">>
KeyRank(key) == CHOOSE i \in 1..Len(KeyOrder) : KeyOrder[i] = key

\* json::operator[](key) = val on an object: the member is replaced, or
\* inserted at its place in the order of the keys.
JSet(j, key, val) ==
    IF JContains(j, key)
    THEN LET i == CHOOSE k \in 1..Len(j.keys) : j.keys[k] = key
         IN  [j EXCEPT !.kids[i] = val]
    ELSE LET n == Cardinality({k \in 1..Len(j.keys) : KeyRank(j.keys[k]) < KeyRank(key)})
         IN  JObj(SubSeq(j.keys, 1, n) \o <<key>> \o SubSeq(j.keys, n + 1, Len(j.keys)),
                  SubSeq(j.kids, 1, n) \o <<val>> \o SubSeq(j.kids, n + 1, Len(j.kids)))

\* json::dump(2): the line break and the indentation written at a depth.
Indent(depth) ==
    CASE depth = 0 -> "\n"
      [] depth = 1 -> "\n  "
      [] depth = 2 -> "\n    "
      [] depth = 3 -> "\n      "
      [] depth = 4 -> "\n        "
WsChunks == {" ", "\n", "\n  ", "\n    ", "\n      ", "\n        "}

RECURSIVE JDump2(_, _)
JDump2(j, depth) ==
    CASE j.t = "str" -> Quoted(j.s)
      [] j.t = "num" -> <<j.s>>
      [] j.t = "bool" -> <<j.s>>
      [] j.t = "arr" ->
            IF j.kids = << >> THEN <<"[", "]">>
            ELSE <<"[", Indent(depth + 1)>>
                 \o Join([i \in 1..Len(j.kids) |-> JDump2(j.kids[i], depth + 1)],
                         <<",", Indent(depth + 1)>>)
                 \o <<Indent(depth), "]">>
      [] j.t = "obj" ->
            IF j.kids = << >> THEN <<"{", "}">>
            ELSE <<"{", Indent(depth + 1)>>
                 \o Join([i \in 1..Len(j.kids) |->
                             Quoted(j.keys[i]) \o <<":", " ">> \o JDump2(j.kids[i], depth + 1)],
                         <<",", Indent(depth + 1)>>)
                 \o <<Indent(depth), "}">>

\* The JSON parser on a text: white space between the tokens is skipped, a
\* string is its two quotes around one chunk, a number is one chunk.
RECURSIVE SkipWs(_, _)
SkipWs(text, pos) ==
    IF pos <= Len(text) /\ text[pos] \in WsChunks THEN SkipWs(text, pos + 1) ELSE pos

ParseFail == [ok |-> FALSE, val |-> JObj(<< >>, << >>), next |-> 0]
Parsed(val, next) == [ok |-> TRUE, val |-> val, next |-> next]

RECURSIVE JParseValue(_, _)
RECURSIVE JParseMembers(_, _, _)
RECURSIVE JParseElements(_, _, _)
JParseValue(text, from) ==
    LET pos == SkipWs(text, from)
    IN  IF pos > Len(text) THEN ParseFail
        ELSE CASE text[pos] = "\"" ->
                    IF pos + 2 <= Len(text) /\ text[pos + 2] = "\""
                    THEN Parsed(JStr(text[pos + 1]), pos + 3)
                    ELSE ParseFail
               [] text[pos] = "{" ->
                    LET p == SkipWs(text, pos + 1)
                    IN  IF p <= Len(text) /\ text[p] = "}"
                        THEN Parsed(JObj(<< >>, << >>), p + 1)
                        ELSE JParseMembers(text, p, JObj(<< >>, << >>))
               [] text[pos] = "[" ->
                    LET p == SkipWs(text, pos + 1)
                    IN  IF p <= Len(text) /\ text[p] = "]"
                        THEN Parsed(JArr(<< >>), p + 1)
                        ELSE JParseElements(text, p, << >>)
               [] text[pos] \in {"true", "false"} ->
                    Parsed(JBool(text[pos] = "true"), pos + 1)
               [] text[pos] \in Numerals -> Parsed(JNum(text[pos]), pos + 1)
               [] OTHER -> ParseFail

JParseMembers(text, pos, obj) ==
    IF pos + 2 > Len(text) \/ text[pos] # "\"" \/ text[pos + 2] # "\"" THEN ParseFail
    ELSE LET colon == SkipWs(text, pos + 3)
         IN  IF colon > Len(text) \/ text[colon] # ":" THEN ParseFail
             ELSE LET v == JParseValue(text, colon + 1)
                  IN  IF ~v.ok THEN ParseFail
                      ELSE LET q == SkipWs(text, v.next)
                               grown == JSet(obj, text[pos + 1], v.val)
                           IN  IF q > Len(text) THEN ParseFail
                               ELSE IF text[q] = "}" THEN Parsed(grown, q + 1)
                               ELSE IF text[q] = ","
                                    THEN JParseMembers(text, SkipWs(text, q + 1), grown)
                               ELSE ParseFail

JParseElements(text, pos, kids) ==
    LET v == JParseValue(text, pos)
    IN  IF ~v.ok THEN ParseFail
        ELSE LET q == SkipWs(text, v.next)
                 grown == Append(kids, v.val)
             IN  IF q > Len(text) THEN ParseFail
                 ELSE IF text[q] = "]" THEN Parsed(JArr(grown), q + 1)
                 ELSE IF text[q] = "," THEN JParseElements(text, q + 1, grown)
                 ELSE ParseFail

JParse(text) == JParseValue(text, 1)

\* json::value(key, default) for a string and for an int: the member if it is
\* there, the default if not; a member of another type throws type_error.
HasOther(j, key, t) == JContains(j, key) /\ JAt(j, key).t # t
StrValue(j, key, default) == IF JContains(j, key) THEN JAt(j, key).s ELSE default
IntValue(j, key, default) == IF JContains(j, key) THEN IntOf(JAt(j, key).s) ELSE default

\* get_current_timestamp(): the ISO-8601 text of the time of the call (one
\* instant stands for every call).
Timestamp == "2025-01-01T00:00:00Z"

\* TodoListStorage and NotesStorage: data, next_id (storage_path is kept with
\* the tool). The constructor makes an empty list and next_id 1.
StoreKey(kind) == IF kind = "todo" THEN "todos" ELSE "notes"
Storage(data, next_id) == [data |-> data, next_id |-> next_id]
NewStorage(kind) == Storage(JObj(<<StoreKey(kind)>>, <<JArr(<< >>)>>), 1)
StoredItems(data, kind) == JAt(data, StoreKey(kind)).kids

\* A file: whether it can be opened for reading, and its text.
NoFile == [exists |-> FALSE, text |-> Empty]
FileOf(text) == [exists |-> TRUE, text |-> text]

\* The loop of load_from_file over the items: next_id becomes id + 1 for
\* every numeric id that is not below it.
RECURSIVE NextIds(_, _)
NextIds(items, next_id) ==
    IF items = << >> THEN {next_id}
    ELSE LET item == Head(items)
         IN  IF JContains(item, "id") /\ JAt(item, "id").t = "num"
             THEN LET id == IntOf(JAt(item, "id").s)
                  IN  IF id >= next_id
                      THEN UNION {NextIds(Tail(items), n) : n \in Increment(id)}
                      ELSE NextIds(Tail(items), next_id)
             ELSE NextIds(Tail(items), next_id)

\* load_from_file that leaves next_id as the constructor set it.
load_from_file_KeepNextId(kind, storage, storage_path, file) ==
    IF storage_path = "" \/ ~file.exists \/ ~JParse(file.text).ok THEN {storage}
    ELSE {Storage(JParse(file.text).val, storage.next_id)}

\* load_from_file: the storages it can leave. Nothing is read without a path
\* or a file; a text that does not parse throws out of file >> data (the
\* malformed texts of this model fail at their first token, where data has
\* not been touched).
load_from_file(kind, storage, storage_path, file) ==
    IF storage_path = "" \/ ~file.exists THEN {storage}
    ELSE LET r == JParse(file.text)
         IN  IF ~r.ok THEN {storage}
             ELSE IF JContains(r.val, StoreKey(kind)) /\ JAt(r.val, StoreKey(kind)).t = "arr"
                  THEN {Storage(r.val, n) :
                            n \in NextIds(StoredItems(r.val, kind), storage.next_id)}
                  ELSE {Storage(r.val, storage.next_id)}

\* save_to_file: the file after the call. Without a path nothing is written;
\* a file that cannot be opened for writing is left as it is (the function
\* returns false, which no caller reads).
save_to_file(data, storage_path, file, writable) ==
    IF storage_path = "" \/ ~writable THEN file ELSE FileOf(JDump2(data, 0))

\* What a callback of the two tools leaves: the result text, the storage, and
\* whether it called save_to_file.
Outcome(result, storage, saved) ==
    [result |-> result, data |-> storage.data, next_id |-> storage.next_id,
     saved |-> saved]
StoreError(message) == JDump(JObj(<<"error">>, <<JStr(message)>>))
\* error["error"] = prefix + rest
StoreError2(prefix, rest) ==
    <<"{", "\"", "error", "\"", ":", "\"", prefix, rest, "\"", "}">>
StoreSuccess(message) ==
    JDump(JObj(<<"message", "success">>, <<JStr(message), JBool(TRUE)>>))
Failed(storage, result) == {Outcome(result, storage, FALSE)}
Thrown(storage, tool) == Failed(storage, StoreError2(tool, "[json.exception.type_error]"))

\* item["id"] == id
HasId(item, id) ==
    JContains(item, "id") /\ JAt(item, "id").t = "num" /\ IntOf(JAt(item, "id").s) = id
\* FirstWithId that takes the first item when the id is not there.
FirstWithId_OrFirst(items, id) ==
    IF \E i \in 1..Len(items) : HasId(items[i], id)
    THEN CHOOSE i \in 1..Len(items) :
            HasId(items[i], id) /\ \A k \in 1..(i - 1) : ~HasId(items[k], id)
    ELSE IF items = << >> THEN 0 ELSE 1
\* The index of the first item with the id, 0 when there is none.
FirstWithId(items, id) ==
    IF \E i \in 1..Len(items) : HasId(items[i], id)
    THEN CHOOSE i \in 1..Len(items) :
            HasId(items[i], id) /\ \A k \in 1..(i - 1) : ~HasId(items[k], id)
    ELSE 0
Erase(items, i) == SubSeq(items, 1, i - 1) \o SubSeq(items, i + 1, Len(items))
WithItems(storage, kind, items) ==
    Storage(JSet(storage.data, StoreKey(kind), JArr(items)), storage.next_id)

todo_tool_callback(params_json, storage) ==
    LET p == JParse(params_json)
        params == p.val
        items == StoredItems(storage.data, "todo")
        operation == StrValue(params, "operation", "list")
    IN  IF ~p.ok THEN Failed(storage, StoreError2("Todo tool error: ", "[json.exception.parse_error]"))
        ELSE IF HasOther(params, "operation", "str") THEN Thrown(storage, "Todo tool error: ")
        ELSE CASE operation = "add" ->
                    IF HasOther(params, "title", "str") THEN Thrown(storage, "Todo tool error: ")
                    ELSE IF StrValue(params, "title", "") = ""
                         THEN Failed(storage, StoreError("Title is required"))
                    ELSE LET todo == JObj(<<"created", "id", "status", "title">>,
                                          <<JStr(Timestamp), JNum(ToString(storage.next_id)),
                                            JStr("pending"), JStr(StrValue(params, "title", ""))>>)
                             result == JDump(JObj(<<"message", "success", "todo">>,
                                                  <<JStr("Todo added successfully"),
                                                    JBool(TRUE), todo>>))
                         IN  {Outcome(result,
                                      Storage(WithItems(storage, "todo",
                                                        Append(items, todo)).data, n),
                                      TRUE) : n \in Increment(storage.next_id)}
               [] operation = "list" ->
                    {Outcome(JDump(JObj(<<"todos">>, <<JArr(items)>>)), storage, FALSE)}
               [] operation = "complete" ->
                    IF HasOther(params, "id", "num") THEN Thrown(storage, "Todo tool error: ")
                    ELSE LET id == IntValue(params, "id", 0)
                             i == FirstWithId(items, id)
                         IN  IF id = 0 THEN Failed(storage, StoreError("Todo ID is required"))
                             ELSE IF i = 0 THEN Failed(storage, StoreError("Todo not found"))
                             ELSE {Outcome(StoreSuccess("Todo marked as completed"),
                                           WithItems(storage, "todo",
                                               [items EXCEPT ![i] =
                                                   JSet(JSet(@, "status", JStr("completed")),
                                                        "completed", JStr(Timestamp))]),
                                           TRUE)}
               [] operation = "delete" ->
                    IF HasOther(params, "id", "num") THEN Thrown(storage, "Todo tool error: ")
                    ELSE LET id == IntValue(params, "id", 0)
                             i == FirstWithId(items, id)
                         IN  IF id = 0 THEN Failed(storage, StoreError("Todo ID is required"))
                             ELSE IF i = 0 THEN Failed(storage, StoreError("Todo not found"))
                             ELSE {Outcome(StoreSuccess("Todo deleted successfully"),
                                           WithItems(storage, "todo", Erase(items, i)),
                                           TRUE)}
               [] OTHER -> Failed(storage, StoreError2("Unknown operation: ", operation))

notes_tool_callback(params_json, storage) ==
    LET p == JParse(params_json)
        params == p.val
        items == StoredItems(storage.data, "notes")
        operation == StrValue(params, "operation", "list")
    IN  IF ~p.ok THEN Failed(storage, StoreError2("Notes tool error: ", "[json.exception.parse_error]"))
        ELSE IF HasOther(params, "operation", "str") THEN Thrown(storage, "Notes tool error: ")
        ELSE CASE operation = "create" ->
                    IF HasOther(params, "content", "str") THEN Thrown(storage, "Notes tool error: ")
                    ELSE IF StrValue(params, "content", "") = ""
                         THEN Failed(storage, StoreError("Content is required"))
                    ELSE LET tags == IF JContains(params, "tags") /\ JAt(params, "tags").t = "arr"
                                     THEN JAt(params, "tags") ELSE JArr(<< >>)
                             note == JObj(<<"content", "created", "id", "tags">>,
                                          <<JStr(StrValue(params, "content", "")),
                                            JStr(Timestamp),
                                            JNum(ToString(storage.next_id)), tags>>)
                             result == JDump(JObj(<<"message", "note", "success">>,
                                                  <<JStr("Note created successfully"),
                                                    note, JBool(TRUE)>>))
                         IN  {Outcome(result,
                                      Storage(WithItems(storage, "notes",
                                                        Append(items, note)).data, n),
                                      TRUE) : n \in Increment(storage.next_id)}
               [] operation = "read" ->
                    IF HasOther(params, "id", "num") THEN Thrown(storage, "Notes tool error: ")
                    ELSE LET id == IntValue(params, "id", 0)
                             i == FirstWithId(items, id)
                         IN  IF id = 0 THEN Failed(storage, StoreError("Note ID is required"))
                             ELSE IF i = 0 THEN Failed(storage, StoreError("Note not found"))
                             ELSE {Outcome(JDump(JObj(<<"note">>, <<items[i]>>)),
                                           storage, FALSE)}
               [] operation = "update" ->
                    IF HasOther(params, "id", "num") THEN Thrown(storage, "Notes tool error: ")
                    ELSE LET id == IntValue(params, "id", 0)
                             i == FirstWithId(items, id)
                             content == IF JContains(params, "content")
                                        THEN JSet(items[i], "content", JAt(params, "content"))
                                        ELSE items[i]
                             tagged == IF JContains(params, "tags") /\ JAt(params, "tags").t = "arr"
                                       THEN JSet(content, "tags", JAt(params, "tags"))
                                       ELSE content
                         IN  IF id = 0 THEN Failed(storage, StoreError("Note ID is required"))
                             ELSE IF i = 0 THEN Failed(storage, StoreError("Note not found"))
                             ELSE {Outcome(StoreSuccess("Note updated successfully"),
                                           WithItems(storage, "notes",
                                               [items EXCEPT ![i] =
                                                   JSet(tagged, "modified", JStr(Timestamp))]),
                                           TRUE)}
               [] operation = "delete" ->
                    IF HasOther(params, "id", "num") THEN Thrown(storage, "Notes tool error: ")
                    ELSE LET id == IntValue(params, "id", 0)
                             i == FirstWithId(items, id)
                         IN  IF id = 0 THEN Failed(storage, StoreError("Note ID is required"))
                             ELSE IF i = 0 THEN Failed(storage, StoreError("Note not found"))
                             ELSE {Outcome(StoreSuccess("Note deleted successfully"),
                                           WithItems(storage, "notes", Erase(items, i)),
                                           TRUE)}
               [] operation = "search" ->
                    \* the calls of this model search with the empty query,
                    \* which every note matches
                    {Outcome(JDump(JObj(<<"count", "notes">>,
                                        <<JNum(ToString(Len(items))), JArr(items)>>)),
                             storage, FALSE)}
               [] operation = "list" ->
                    {Outcome(JDump(JObj(<<"count", "notes">>,
                                        <<JNum(ToString(Len(items))), JArr(items)>>)),
                             storage, FALSE)}
               [] OTHER -> Failed(storage, StoreError2("Unknown operation: ", operation))


\* The store of a tool before any call: made by luup_agent_enable_builtin_todo
\* or luup_agent_enable_builtin_notes on a path (empty: memory only).
EnabledStore(kind, storage_path, file, writable, storage) ==
    [kind |-> kind, storage_path |-> storage_path, data |-> storage.data,
     next_id |-> storage.next_id, file |-> file, writable |-> writable,
     result |-> Empty, saved |-> FALSE, adds |-> 0,
     last |-> "enable", written |-> << >>]

\* The in-memory todo store that luup_agent_create registers.
MemoryTodoStore == EnabledStore("todo", "", NoFile, FALSE, NewStorage("todo"))

(***************************************************************************)
(* The error state of error_handling.cpp and the objects the library       *)
(* allocates.  A thread's slot is thread_local; the callback, its user     *)
(* data and the mutex are globals.                                         *)
(***************************************************************************)
Threads == {1, 2}

\* A global_error_callback with its user data; "null" is nullptr.
Registration(fn, ud) == [fn |-> fn, ud |-> ud]
NoCallback == Registration("null", "null")

\* The state at program start when the given threads make the calls:
\* last_error_code = LUUP_SUCCESS, an empty last_error_message, no callback,
\* the mutex free (0: no holder).  installed is the registration of the last
\* luup_set_error_callback that returned; pc, pending, arg, op, ok, result,
\* invoked, allowed, model and agent record where each thread is in its call
\* and what the calls returned.
ErrorsAtStart(threads) ==
    [threads |-> threads,
     last_error_code |-> [t \in Threads |-> "LUUP_SUCCESS"],
     last_error_message |-> [t \in Threads |-> Empty],
     global_error_callback |-> "null",
     global_error_callback_user_data |-> "null",
     callback_mutex |-> 0,
     installed |-> NoCallback,
     pc |-> [t \in Threads |-> "idle"],
     pending |-> [t \in Threads |-> << >>],
     arg |-> [t \in Threads |-> NoCallback],
     op |-> [t \in Threads |-> "none"],
     ok |-> [t \in Threads |-> TRUE],
     result |-> [t \in Threads |-> "none"],
     invoked |-> [t \in Threads |-> << >>],
     allowed |-> [t \in Threads |-> {}],
     model |-> FALSE,
     agent |-> FALSE]
InitialErrors == ErrorsAtStart({1})

\* No object allocated yet: objects are the live allocations (models with
\* their backend, agents with their tool entries, the storages of built-in
\* tools), allocated counts every allocation made, and the remaining fields
\* record the last lifecycle call of the single calling thread.
\* A const char* argument: nullptr or a text.
Null == [null |-> TRUE, s |-> Empty]
Str(s) == [null |-> FALSE, s |-> s]
\* A luup_model_config, or nullptr.
ModelConfig(path, gpu_layers, api_key, api_base_url) ==
    [null |-> FALSE, path |-> path, gpu_layers |-> gpu_layers,
     api_key |-> api_key, api_base_url |-> api_base_url]
NullModelConfig == [ModelConfig(Null, 0, Null, Null) EXCEPT !.null = TRUE]

\* No object is allocated.
EmptyHeap ==
    [objects |-> {}, allocated |-> 0, last_error_code |-> "LUUP_SUCCESS",
     last_error_message |-> Empty, op |-> "none", arg |-> NullModelConfig, model |-> 0,
     ok |-> TRUE, result |-> 0, before |-> {}]

(***************************************************************************)
(* The agent (agent.cpp).                                                  *)
(***************************************************************************)
VARIABLES
    system_prompt,              \* luup_agent::system_prompt (Empty: none)
    enable_tool_calling,        \* luup_agent::enable_tool_calling
    enable_history_management,  \* luup_agent::enable_history_management
    enable_builtin_tools,       \* luup_agent::enable_builtin_tools
    is_local,                   \* luup_model::is_local of the agent's model
    history,                    \* luup_agent::history
    tools,                      \* luup_agent::tools, name -> ToolInfo
    sum_enabled,                \* SummarizationState::enabled of the registered state
    pc,                         \* where the agent is: idle, generate, dispatch
    stream,                     \* the turn runs luup_agent_generate_stream
    input,                      \* the user message the turn was called with
    user_message,               \* user_message of the current (re-)entry
    response,                   \* the response of the last generation
    next_call,                  \* index of the next ToolCall to execute
    tool_results,               \* tool_results built so far
    reentries,                  \* recursive calls made in this turn
    ret,                        \* what the last respond returned
    streamed,                   \* texts handed to the stream callback this turn
    log,                        \* generations and tool executions of this turn
    sum_applied,                \* summarizations that replaced the history in the last turn
    hist0,                      \* length of the history when the last turn or clear began
    last_op,                    \* the operation that ran last
    last_reg,                   \* name -> the ToolInfo of its latest registration
    repertoire,                 \* which of the Repertoires the backend answers with
    store,                      \* the storage of a todo or notes tool, with its file
    err,                        \* the error slots, the error callback and its mutex
    heap                        \* the objects the library has allocated

config == <<system_prompt, enable_tool_calling, enable_history_management,
            enable_builtin_tools, is_local>>
turn == <<stream, input, user_message, response, next_call, tool_results, reentries,
          ret, streamed, log, sum_applied, hist0>>
vars == <<config, history, tools, sum_enabled, pc, turn, last_op, last_reg,
          repertoire, store, err, heap>>

Prompts == {Empty, <<"Test system">>}
UserMessages == {<<"add 2 and 3">>}
Roles == {"system", "tool"}
Contents == {<<"Hello">>}
UserTools == {"add"}
UserCallbacks == {ToolInfo("cbA", "ud1"), ToolInfo("cbB", "ud2")}
\* The exploration registers cbA under a new name and another callback than
\* the current one under a name that is taken.
FirstCallback == ToolInfo("cbA", "ud1")
SummaryTexts == {Empty, <<"S">>}

NoReturn == [status |-> "none", text |-> Empty]

\* An entry of the log: a generation (text is the backend's answer, backend
\* the function respond called, error the code left by a failed call), or the
\* execution of one ToolCall (callback is "none" when nothing was invoked; how
\* is what the invoked callback did: text, null or throw).
GenEvent(text) ==
    [kind |-> "gen", backend |-> "llama_backend_generate", error |-> "none",
     tool_name |-> "", params |-> Empty, callback |-> "none",
     user_data |-> "none", how |-> "none", result |-> Empty, text |-> text]
ExecEvent(tc, info, how, result) ==
    [kind |-> "exec", backend |-> "none", error |-> "none",
     tool_name |-> tc.tool_name, params |-> tc.parameters_json,
     callback |-> info.callback, user_data |-> info.user_data, how |-> how,
     result |-> result, text |-> Empty]
NotInvoked == ToolInfo("none", "none")

\* register_tool with std::map::insert, which keeps an existing entry.
register_tool_KeepFirst(registry, name, info) ==
    [n \in DOMAIN registry \cup {name} |->
        IF n \in DOMAIN registry THEN registry[n] ELSE info]

\* The map insertion of luup_agent_register_tool: agent->tools[name] = info.
register_tool(registry, name, info) ==
    [n \in DOMAIN registry \cup {name} |-> IF n = name THEN info ELSE registry[n]]

SystemMessage(prompt) == Message("system", prompt)

\* The history luup_agent_create and luup_agent_clear_history build.
InitialHistory(prompt) == IF prompt # Empty THEN <<SystemMessage(prompt)>> ELSE << >>

\* The three registrations of luup_agent_create when built-in tools are enabled.
BuiltinTools ==
    register_tool(
        register_tool(
            register_tool(<< >>, "todo", ToolInfo("todo_tool_callback", "todo_storage")),
            "notes", ToolInfo("notes_tool_callback", "notes_storage")),
        "summarization", ToolInfo("summarization_tool_callback", "sum_state"))

TurnReset ==
    /\ stream' = FALSE
    /\ input' = Empty
    /\ user_message' = Empty
    /\ response' = Empty
    /\ next_call' = 1
    /\ tool_results' = Empty
    /\ reentries' = 0
    /\ ret' = NoReturn
    /\ streamed' = << >>
    /\ log' = << >>
    /\ sum_applied' = 0
    /\ hist0' = 0

Init ==
    /\ system_prompt \in Prompts
    /\ enable_tool_calling \in BOOLEAN
    /\ enable_history_management \in BOOLEAN
    /\ enable_builtin_tools \in BOOLEAN
    /\ history = InitialHistory(system_prompt)
    /\ tools = IF enable_builtin_tools THEN BuiltinTools ELSE << >>
    /\ is_local = TRUE
    /\ store = MemoryTodoStore
    /\ err = InitialErrors
    /\ heap = EmptyHeap
    /\ sum_enabled = TRUE
    /\ pc = "idle"
    /\ stream = FALSE
    /\ input = Empty
    /\ user_message = Empty
    /\ response = Empty
    /\ next_call = 1
    /\ tool_results = Empty
    /\ reentries = 0
    /\ ret = NoReturn
    /\ streamed = << >>
    /\ log = << >>
    /\ sum_applied = 0
    /\ hist0 = 0
    /\ last_op = "create"
    /\ last_reg = tools
    /\ repertoire \in DOMAIN Repertoires

\* luup_agent_register_tool (explored while the history is short)
RegisterTool ==
    /\ pc = "idle"
    /\ Len(history) <= MaxHistory
    /\ \E name \in UserTools, info \in UserCallbacks :
          /\ IF name \in DOMAIN tools THEN info # tools[name] ELSE info = FirstCallback
          /\ tools' = register_tool(tools, name, info)
          /\ last_reg' = (name :> info) @@ last_reg
    /\ last_op' = "register_tool"
    /\ TurnReset
    /\ UNCHANGED <<store, err, heap, config, history, sum_enabled, pc, repertoire>>

\* luup_agent_enable_builtin_summarization (explored while the history is short)
EnableBuiltinSummarization ==
    /\ pc = "idle"
    /\ Len(history) <= MaxHistory
    /\ LET info == ToolInfo("summarization_tool_callback", "sum_state") IN
          /\ tools' = register_tool(tools, "summarization", info)
          /\ last_reg' = ("summarization" :> info) @@ last_reg
    /\ sum_enabled' = TRUE
    /\ last_op' = "enable_builtin_summarization"
    /\ TurnReset
    /\ UNCHANGED <<store, err, heap, config, history, pc, repertoire>>

\* luup_agent_add_message
AddMessage ==
    /\ pc = "idle"
    /\ Len(history) < MaxHistory
    /\ \E role \in Roles, content \in Contents :
          history' = Append(history, Message(role, content))
    /\ last_op' = "add_message"
    /\ TurnReset
    /\ UNCHANGED <<store, err, heap, config, tools, sum_enabled, pc, last_reg, repertoire>>

\* clear_history without the re-added system prompt.
clear_history_Empty(hist, prompt) == << >>

\* The history luup_agent_clear_history leaves.
clear_history(hist, prompt) == InitialHistory(prompt)

\* luup_agent_clear_history
ClearHistory ==
    /\ pc = "idle"
    /\ history' = clear_history(history, system_prompt)
    /\ last_op' = "clear_history"
    /\ stream' = FALSE
    /\ input' = Empty
    /\ user_message' = Empty
    /\ response' = Empty
    /\ next_call' = 1
    /\ tool_results' = Empty
    /\ reentries' = 0
    /\ ret' = NoReturn
    /\ streamed' = << >>
    /\ log' = << >>
    /\ hist0' = Len(history)
    /\ UNCHANGED <<store, err, heap, config, tools, sum_enabled, pc, sum_applied, last_reg, repertoire>>

\* DetectedCalls without the check of enable_tool_calling and of the registry.
DetectedCalls_Always(text) == ParsedCalls[text]

\* The tool calls respond acts on after a generation: the parser runs only when
\* tool calling is enabled and the registry is not empty.
DetectedCalls(text) ==
    IF enable_tool_calling /\ DOMAIN tools # {} THEN ParsedCalls[text] ELSE << >>

\* format_chat_history: every system, user and assistant message as a label,
\* its content and a blank line (messages of another role are skipped), then
\* the label the model is to answer after.
RECURSIVE format_chat_history_messages(_)
format_chat_history_messages(hist) ==
    IF hist = << >> THEN << >>
    ELSE LET msg == Head(hist)
             line == IF msg.role = "system" THEN <<"System: ">> \o msg.content \o <<"\n\n">>
                     ELSE IF msg.role = "user" THEN <<"User: ">> \o msg.content \o <<"\n\n">>
                     ELSE IF msg.role = "assistant"
                          THEN <<"Assistant: ">> \o msg.content \o <<"\n\n">>
                     ELSE << >>
         IN  line \o format_chat_history_messages(Tail(hist))
format_chat_history(hist) == format_chat_history_messages(hist) \o <<"Assistant: ">>

\* The ChatML prompt respond builds when history management is off. The text
\* "<|im_end|>\n" is carried as the marker and the line feed after it.
ImEnd == "<|im_end|>"
ChatMLPrompt(prompt, message) ==
    (IF prompt # Empty THEN <<"<|im_start|>system\n">> \o prompt \o <<ImEnd, "\n">>
     ELSE << >>)
    \o <<"<|im_start|>user\n">> \o message \o <<ImEnd, "\n", "<|im_start|>assistant\n">>

\* luup_tool::description and luup_tool::parameters_json of a registered tool
\* as generate_tool_schema prints them. The built-in tools register the texts
\* of their sources (a parameter schema is carried as one chunk); a user tool
\* is registered here without description and parameters.
ToolDescription(name) ==
    CASE name = "todo" -> "Manage todo list: add, list, complete, or delete tasks"
      [] name = "notes" ->
            "Manage notes: create, read, update, delete, or search notes with tags"
      [] name = "summarization" ->
            "Control auto-summarization: check status, manually trigger, enable/disable"
      [] OTHER -> "No description"
ToolParameters(name) ==
    CASE name = "todo" -> "{todo parameters_json}"
      [] name = "notes" -> "{notes parameters_json}"
      [] name = "summarization" -> "{summarization parameters_json}"
      [] OTHER -> "{}"

\* The iteration order of std::map<std::string, ToolInfo> over the names used.
ToolOrder == <<"add", "notes", "summarization", "todo">>

SchemaEntry(name) ==
    <<"Tool: ", name, "\n", "Description: ", ToolDescription(name), "\n",
      "Parameters: ", ToolParameters(name), "\n\n">>

\* The fixed text around the entries; <fence> stands for the three grave accents
\* of a code fence.
SchemaHeader == <<"\n\nYou have access to the following tools:\n\n">>
SchemaFooter ==
    <<"To call a tool, respond with JSON in the following format:\n",
      "<fence>json\n", "{\n", "  \"tool_calls\": [\n", "    {\n",
      "      \"name\": \"tool_name\",\n", "      \"parameters\": { ... }\n",
      "    }\n", "  ]\n", "}\n", "<fence>\n\n">>

RECURSIVE SchemaEntries(_, _)
SchemaEntries(registry, k) ==
    IF k > Len(ToolOrder) THEN << >>
    ELSE (IF ToolOrder[k] \in DOMAIN registry THEN SchemaEntry(ToolOrder[k]) ELSE << >>)
         \o SchemaEntries(registry, k + 1)

generate_tool_schema(registry) ==
    IF DOMAIN registry = {} THEN Empty
    ELSE SchemaHeader \o SchemaEntries(registry, 1) \o SchemaFooter

\* prompt.find("<|im_end|>"): the first position of the marker, 0 for npos.
FindImEnd(prompt) ==
    IF \E i \in 1..Len(prompt) : prompt[i] = ImEnd
    THEN CHOOSE i \in 1..Len(prompt) :
            prompt[i] = ImEnd /\ \A j \in 1..(i - 1) : prompt[j] # ImEnd
    ELSE 0

\* prompt.insert(insert_pos + 11, tool_schema): after the marker and its line feed.
InsertSchema(prompt, tool_schema) ==
    LET insert_pos == FindImEnd(prompt)
    IN  IF insert_pos = 0 THEN prompt
        ELSE SubSeq(prompt, 1, insert_pos + 1) \o tool_schema
             \o SubSeq(prompt, insert_pos + 2, Len(prompt))

\* The prompt luup_agent_generate_internal (and the streaming variant) hands to
\* the backend.
BuildPrompt(history_on, prompt, hist, message, tool_calling, registry) ==
    LET base == IF history_on THEN format_chat_history(hist)
                ELSE ChatMLPrompt(prompt, message)
    IN  IF tool_calling /\ DOMAIN registry # {}
        THEN InsertSchema(base, generate_tool_schema(registry))
        ELSE base

\* The prompt of the backend call that is about to be made (pc = "generate").
PromptPassed ==
    BuildPrompt(enable_history_management, system_prompt, history, user_message,
                enable_tool_calling, tools)

\* The first half of luup_agent_generate_internal and of
\* luup_agent_generate_stream_internal when called from the public wrapper
\* (add_to_history = true): the user message is appended.
RespondBegin ==
    /\ pc = "idle"
    /\ Len(history) <= MaxHistory
    /\ \E msg \in UserMessages, s \in BOOLEAN :
          /\ stream' = s
          /\ input' = msg
          /\ user_message' = msg
          /\ history' = IF enable_history_management
                        THEN Append(history, Message("user", msg))
                        ELSE history
    /\ hist0' = Len(history)
    /\ pc' = "generate"
    /\ response' = Empty
    /\ next_call' = 1
    /\ tool_results' = Empty
    /\ reentries' = 0
    /\ ret' = NoReturn
    /\ streamed' = << >>
    /\ log' = << >>
    /\ sum_applied' = 0
    /\ last_op' = "respond"
    /\ UNCHANGED <<store, err, heap, config, tools, sum_enabled, last_reg, repertoire>>

\* generate_failed that pushes an assistant message without content.
generate_failed_PushesEmpty(hist, history_management) ==
    [history |-> IF history_management THEN Append(hist, Message("assistant", Empty))
                 ELSE hist,
     ret |-> [status |-> "fail", text |-> Empty]]

\* `if (!response_raw) return nullptr;` (LUUP_ERROR_INFERENCE_FAILED in the
\* streaming variant): nothing is pushed and nothing is removed.
generate_failed(hist, history_management) ==
    [history |-> hist, ret |-> [status |-> "fail", text |-> Empty]]

\* llama_backend_generate returns null: respond returns its error sentinel.
GenerateFail ==
    /\ pc = "generate"
    /\ LET failed == generate_failed(history, enable_history_management)
       IN  /\ ret' = failed.ret
           /\ history' = failed.history
    /\ log' = Append(log, [GenEvent(Empty) EXCEPT !.kind = "genfail",
                                                   !.error = "LUUP_ERROR_INFERENCE_FAILED"])
    /\ pc' = "idle"
    /\ UNCHANGED <<store, err, heap, config, tools, sum_enabled, stream, input, user_message,
                   response, next_call, tool_results, reentries, streamed,
                   sum_applied, hist0, last_op, last_reg, repertoire>>

\* The end of luup_agent_generate_stream_internal without the push of the
\* assistant message.
stream_final_NoPush(hist, history_management, out, callbacks) ==
    [history |-> hist,
     streamed |-> Append(callbacks, out),
     ret |-> [status |-> "ok", text |-> Empty]]

\* The end of luup_agent_generate_stream_internal when the response carries no
\* tool call: the callback is called with the response, the response is
\* pushed with history on, LUUP_SUCCESS is returned.
stream_final(hist, history_management, out, callbacks) ==
    [history |-> IF history_management THEN Append(hist, Message("assistant", out))
                 ELSE hist,
     streamed |-> Append(callbacks, out),
     ret |-> [status |-> "ok", text |-> Empty]]

\* The end of luup_agent_generate_internal: the response is pushed with
\* history on and a copy of it is returned.
generate_final(hist, history_management, out, callbacks) ==
    [history |-> IF history_management THEN Append(hist, Message("assistant", out))
                 ELSE hist,
     streamed |-> callbacks,
     ret |-> [status |-> "ok", text |-> out]]

\* llama_backend_generate returns a text without tool calls (or tools are off):
\* the text is streamed or returned and, with history on, appended.
GenerateFinal ==
    /\ pc = "generate"
    /\ \E out \in Repertoires[repertoire] :
          LET final == IF stream
                       THEN stream_final(history, enable_history_management, out, streamed)
                       ELSE generate_final(history, enable_history_management, out, streamed)
          IN  /\ DetectedCalls(out) = << >>
              /\ response' = out
              /\ log' = Append(log, GenEvent(out))
              /\ streamed' = final.streamed
              /\ history' = final.history
              /\ ret' = final.ret
    /\ pc' = "idle"
    /\ UNCHANGED <<store, err, heap, config, tools, sum_enabled, stream, input, user_message, next_call,
                   tool_results, reentries, sum_applied, hist0, last_op, last_reg, repertoire>>

\* llama_backend_generate returns a text with tool calls: they are executed next.
\* (The exploration stops offering such texts after MaxReentries re-entries.)
GenerateToolCalls ==
    /\ pc = "generate"
    /\ reentries < MaxReentries
    /\ \E out \in Repertoires[repertoire] :
          /\ DetectedCalls(out) # << >>
          /\ response' = out
          /\ log' = Append(log, GenEvent(out))
    /\ next_call' = 1
    /\ tool_results' = Empty
    /\ pc' = "dispatch"
    /\ UNCHANGED <<store, err, heap, config, history, tools, sum_enabled, stream, input, user_message,
                   reentries, ret, streamed, sum_applied, hist0, last_op, last_reg, repertoire>>

\* The result a user callback returns when it succeeds.
CallbackResult(callback) ==
    IF callback = "cbA" THEN JDump(JObj(<<"sum">>, <<JNum("5")>>))
    ELSE JDump(JObj(<<"product">>, <<JNum("6")>>))

\* What the callback of a registered entry may do when invoked.  (The stores of
\* the todo and notes tools are not part of this model: their callbacks answer
\* with an object that is not looked into.)
CallbackRuns(info) ==
    IF info.callback \in {"cbA", "cbB"}
    THEN {Returned(CallbackResult(info.callback)), ReturnedNull, Raised("boom"),
          RaisedOther}
    ELSE {Returned(<<"{", "}">>)}

\* What the backend may do when generate_summary calls it.
SummaryRuns == {ReturnedNull} \cup {Returned(t) : t \in SummaryTexts}

\* NthToolCall walking the list from its end.
NthToolCall_Reversed(tool_calls, k) == tool_calls[Len(tool_calls) + 1 - k]

\* The ToolCall the loop `for (const auto& tc : tool_calls)` executes k-th.
NthToolCall(tool_calls, k) == tool_calls[k]

\* ReentryMessages without the assistant message.
ReentryMessages_ResultOnly(raw_response, results) == <<Message("user", results)>>

\* ReentryMessages with the two messages in the other order.
ReentryMessages_Swapped(raw_response, results) ==
    <<Message("user", results), Message("assistant", raw_response)>>

\* The two messages pushed before the recursive call, with history on.
ReentryMessages(raw_response, results) ==
    <<Message("assistant", raw_response), Message("user", results)>>

\* One iteration of the loop over tool_calls; after the last one the two
\* messages are pushed and respond calls itself with tool_results.
DispatchStep(tc, info, how, result, hist_after, enabled_after, applied) ==
    LET results == tool_results \o format_tool_result(tc.tool_name, result) \o <<"\n">>
        last == next_call = Len(DetectedCalls(response))
    IN  /\ log' = Append(log, ExecEvent(tc, info, how, result))
        /\ tool_results' = results
        /\ sum_enabled' = enabled_after
        /\ sum_applied' = sum_applied + (IF applied THEN 1 ELSE 0)
        /\ UNCHANGED ret
        /\ IF last
           THEN /\ history' = IF enable_history_management
                              THEN hist_after \o ReentryMessages(response, results)
                              ELSE hist_after
                /\ user_message' = results
                /\ reentries' = reentries + 1
                /\ next_call' = 1
                /\ pc' = "generate"
           ELSE /\ history' = hist_after
                /\ next_call' = next_call + 1
                /\ UNCHANGED <<user_message, reentries, pc>>

\* The callback raised something execute_tool does not catch: the handler of
\* respond (`catch (const std::exception& e)` too) does not catch it either, and
\* it leaves respond through the C interface.  The locals of the turn are gone,
\* nothing more is pushed on the history.
DispatchEscape(tc, info, how) ==
    /\ log' = Append(log, ExecEvent(tc, info, how, Empty))
    /\ ret' = [status |-> "escaped", text |-> Empty]
    /\ pc' = "idle"
    /\ next_call' = 1
    /\ tool_results' = Empty
    /\ UNCHANGED <<history, user_message, reentries, sum_enabled, sum_applied>>

DispatchTool ==
    /\ pc = "dispatch"
    /\ LET tc == NthToolCall(DetectedCalls(response), next_call) IN
       IF tc.tool_name \notin DOMAIN tools
       THEN DispatchStep(tc, NotInvoked, "none",
                         execute_tool(tc.tool_name, tc.parameters_json, tools, ReturnedNull),
                         history, sum_enabled, FALSE)
       ELSE LET info == tools[tc.tool_name] IN
            IF info.callback = "summarization_tool_callback"
            THEN \E summary_out \in SummaryRuns :
                    LET r == summarization_tool_callback(tc.parameters_json, history,
                                                         sum_enabled, summary_out)
                    IN  DispatchStep(tc, info, "text",
                            execute_tool(tc.tool_name, tc.parameters_json, tools,
                                         Returned(r.result)),
                            r.history, r.enabled,
                            /\ SumOperation(tc.parameters_json) = "trigger"
                            /\ sum_enabled
                            /\ SummarizationApplies(history, summary_out))
            ELSE \E run \in CallbackRuns(info) :
                    IF Escapes(tc.tool_name, tools, run)
                    THEN DispatchEscape(tc, info, run.how)
                    ELSE DispatchStep(tc, info, run.how,
                             execute_tool(tc.tool_name, tc.parameters_json, tools, run),
                             history, sum_enabled, FALSE)
    /\ UNCHANGED <<store, err, heap, config, tools, stream, input, response, streamed, hist0,
                   last_op, last_reg, repertoire>>

Next ==
    \/ RegisterTool
    \/ EnableBuiltinSummarization
    \/ AddMessage
    \/ ClearHistory
    \/ RespondBegin
    \/ GenerateFail
    \/ GenerateFinal
    \/ GenerateToolCalls
    \/ DispatchTool

Spec == Init /\ [][Next]_vars

(***************************************************************************)
(* Properties.                                                             *)
(***************************************************************************)
\* The tool calls each text of the model carries, read from left to right.
ExpectedCalls(text) ==
    CASE text = TextAdd -> <<ToolCall("add", JDump(ParamsAdd))>>
      [] text = TextTrigger -> <<ToolCall("summarization", JDump(ParamsTrigger))>>
      [] text = TextAddNope ->
            <<ToolCall("add", JDump(ParamsAdd)), ToolCall("nope", JDump(ParamsNone))>>
      [] text = TextNopeAdd ->
            <<ToolCall("nope", JDump(ParamsNone)), ToolCall("add", JDump(ParamsAdd))>>
      [] text = TextDirect -> <<ToolCall("add", JDump(ParamsNone))>>
      [] OTHER -> << >>

\* The texts without a brace-matched JSON object that parses and matches an
\* envelope.
NoEnvelopeTexts == {TextFive, TextDone, TextMalformed, TextNameOnly}

ToolsOn == enable_tool_calling /\ DOMAIN tools # {}
Succeeded == pc = "idle" /\ last_op = "respond" /\ ret.status = "ok"
\* What the caller of respond received: the returned text, or the texts handed
\* to its stream callback.
Delivered == IF stream THEN streamed ELSE <<ret.text>>
GenIndexes == {i \in 1..Len(log) : log[i].kind = "gen"}
LastGen == CHOOSE i \in GenIndexes : \A j \in GenIndexes : j <= i
\* The tool-result block of the executions logged at positions from..to.
BlockOf(from, to) ==
    Concat([k \in 1..(to - from + 1) |->
              <<"Tool '", log[from + k - 1].tool_name, "' returned:\n">>
              \o log[from + k - 1].result \o <<"\n">>])
ErrorObject(msg, name) ==
    JDump(JObj(<<"error", "tool_name">>, <<JStr(msg), JStr(name)>>))
MessageIs(m, role, content) == m.role = role /\ m.content = content

C2_RecursionBounded == reentries < MaxReentries

\* C3: when the first generation of a turn yields one tool call naming a
\* registered tool and the second yields a plain text T, respond delivers T, the
\* callback is invoked exactly once, between the two generations and with the
\* parsed arguments, and with history on the history ends with the user input,
\* the raw tool-call text, the tool-result block and T.
C3_RegisterAndCall ==
    (/\ Succeeded /\ ToolsOn
     /\ Cardinality(GenIndexes) = 2
     /\ Len(ExpectedCalls(log[1].text)) = 1
     /\ ExpectedCalls(log[1].text)[1].tool_name \in DOMAIN tools)
    => LET call == ExpectedCalls(log[1].text)[1]
           T == log[Len(log)].text
           n == Len(history)
       IN  /\ Len(log) = 3
           /\ log[2].kind = "exec" /\ log[3].kind = "gen"
           /\ log[2].tool_name = call.tool_name
           /\ log[2].params = call.parameters_json
           /\ log[2].callback = tools[call.tool_name].callback
           /\ log[2].callback # "none"
           /\ Delivered = <<T>>
           /\ enable_history_management =>
                /\ n >= 4
                /\ MessageIs(history[n - 3], "user", input)
                /\ MessageIs(history[n - 2], "assistant", log[1].text)
                /\ MessageIs(history[n - 1], "user", BlockOf(2, 2))
                /\ MessageIs(history[n], "assistant", T)

C3_Witness ==
    /\ Succeeded /\ ToolsOn /\ enable_history_management
    /\ Len(log) = 3
    /\ log[1].text = TextAdd /\ log[2].callback = "cbA" /\ log[2].how = "text"
    /\ log[3].text = TextFive

\* C4: after luup_agent_clear_history the history holds exactly the configured
\* system prompt as one system message, or nothing when none was configured.
C4_ClearHistory ==
    last_op = "clear_history"
        => history = IF system_prompt # Empty
                     THEN <<[role |-> "system", content |-> system_prompt]>>
                     ELSE << >>

C4_Witness ==
    /\ last_op = "clear_history" /\ system_prompt # Empty
    /\ hist0 >= 4 /\ sum_applied >= 1

\* C5: a model output without a brace-matched JSON object that parses and
\* matches an envelope parses to the empty list, is followed by no tool
\* execution, is delivered verbatim and, with history on, is appended as the
\* assistant message.
C5_NoEnvelope ==
    /\ \A t \in NoEnvelopeTexts : ParsedCalls[t] = << >>
    /\ \A i \in 1..Len(log) :
          (log[i].kind = "gen" /\ log[i].text \in NoEnvelopeTexts)
          => /\ i = Len(log)
             /\ pc = "idle" /\ ret.status = "ok"
             /\ Delivered = <<log[i].text>>
             /\ enable_history_management =>
                    MessageIs(history[Len(history)], "assistant", log[i].text)

C5_Witness ==
    /\ Succeeded /\ ToolsOn /\ enable_history_management
    /\ log[Len(log)].text = TextMalformed

FailedExec(e) ==
    e.kind = "exec" /\ (e.callback = "none" \/ e.how \in {"null", "throw", "throw_other"})
FailureText(e) ==
    IF e.callback = "none" THEN "Tool not found"
    ELSE IF e.how = "null" THEN "Tool execution failed"
    ELSE "boom"
\* C7: a failing tool call (unknown tool, callback returning null or raising)
\* never makes respond fail: its result is an error object with error and
\* tool_name, the object is part of the tool-result block, and a generation with
\* that block as the user input follows.
C7_FailingToolRecovers ==
    /\ ret.status \notin {"none", "ok"} => log[Len(log)].kind = "genfail"
    /\ \A i \in 1..Len(log) :
          FailedExec(log[i])
          => /\ log[i].result = ErrorObject(FailureText(log[i]), log[i].tool_name)
             /\ \/ pc \in {"dispatch", "generate"}
                \/ \E j \in (i + 1)..Len(log) : log[j].kind \in {"gen", "genfail"}
    /\ (pc = "generate" /\ reentries > 0)
          => /\ user_message = BlockOf(LastGen + 1, Len(log))
             /\ enable_history_management =>
                    MessageIs(history[Len(history)], "user", BlockOf(LastGen + 1, Len(log)))

C9_LatestRegistration ==
    /\ DOMAIN tools = DOMAIN last_reg
    /\ \A n \in DOMAIN tools : tools[n] = last_reg[n]
    /\ \A i \in 1..Len(log) :
          (log[i].kind = "exec" /\ log[i].tool_name \in DOMAIN last_reg)
          => /\ log[i].callback = last_reg[log[i].tool_name].callback
             /\ log[i].user_data = last_reg[log[i].tool_name].user_data
C9_Registry ==
    /\ [](C9_LatestRegistration)
    /\ [][DOMAIN tools \subseteq DOMAIN tools']_vars

C9_Witness ==
    \E i \in 1..Len(log) :
       /\ log[i].kind = "exec" /\ log[i].tool_name = "add"
       /\ log[i].callback = "cbB" /\ log[i].user_data = "ud2"

ExecsAfter(g) ==
    {i \in (g + 1)..Len(log) :
        \A j \in (g + 1)..i : log[j].kind = "exec"}
\* respond has handed a value back to its caller (a text, LUUP_SUCCESS or the
\* error sentinel).
Responded == pc = "idle" /\ last_op = "respond" /\ ret.status \in {"ok", "fail"}

DispatchedTwice ==
    /\ Responded /\ ToolsOn /\ reentries >= 2
    /\ \E i \in 1..Len(log) : log[i].kind = "exec" /\ log[i].callback # "none"

\* respond returned its error sentinel because the backend's generate failed.
GenerationFailed ==
    /\ pc = "idle" /\ last_op = "respond" /\ ret.status = "fail"
    /\ log # << >> /\ log[Len(log)].kind = "genfail"
\* The position in the log of the k-th completed generation of the turn.
NthGen(k) ==
    CHOOSE i \in GenIndexes : Cardinality({j \in GenIndexes : j <= i}) = k
\* The position of the generation, completed or failed, that follows position i.
GenAfter(i) ==
    CHOOSE j \in (i + 1)..Len(log) :
        /\ log[j].kind \in {"gen", "genfail"}
        /\ \A l \in (i + 1)..(j - 1) : log[l].kind = "exec"
\* The messages the turn has appended when its generation failed after r
\* completed re-entries: the user message, then for each re-entry the raw
\* response and the tool-result block.
TurnMessages(r) ==
    <<Message("user", input)>>
    \o Concat([k \in 1..r |->
                 <<Message("assistant", log[NthGen(k)].text),
                   Message("user", BlockOf(NthGen(k) + 1, GenAfter(NthGen(k)) - 1))>>])

\* C35 as stated: when the backend's generate fails during respond with history
\* management on, respond returns its error sentinel and the history is what it
\* was before the turn followed by the user message and the assistant and
\* tool-result messages of each completed re-entry, with no assistant message
\* for the failed generation.
C35_FailureKeepsTurn ==
    (GenerationFailed /\ enable_history_management)
        => /\ ret = [status |-> "fail", text |-> Empty]
           /\ Len(history) = hist0 + 1 + 2 * reentries
           /\ SubSeq(history, hist0 + 1, Len(history)) = TurnMessages(reentries)

\* C35 amended: the same for every turn in which no tool call applied
\* summarization; in every turn the history ends with the messages of the turn
\* that were appended after the last summarization, and never with an
\* assistant message for the failed generation.
C35_FailureKeepsTurnUnlessSummarized ==
    (GenerationFailed /\ enable_history_management)
        => /\ ret = [status |-> "fail", text |-> Empty]
           /\ history # << >>
           /\ history[Len(history)] = TurnMessages(reentries)[1 + 2 * reentries]
           /\ history[Len(history)].role = "user"
           /\ sum_applied = 0 =>
                 /\ Len(history) = hist0 + 1 + 2 * reentries
                 /\ SubSeq(history, hist0 + 1, Len(history)) = TurnMessages(reentries)

\* The generation failed after two completed re-entries, each with an executed
\* callback, and nothing was summarized.
C35_Witness ==
    /\ GenerationFailed /\ enable_history_management /\ sum_applied = 0
    /\ reentries = 2 /\ hist0 >= 1
    /\ \E i \in 1..Len(log) : log[i].kind = "exec" /\ log[i].how = "text"
    /\ Len(history) = hist0 + 5

(***************************************************************************)
(* The summarization tool on its own: the callback is invoked, as            *)
(* execute_tool invokes it, on histories that luup_agent_add_message built.  *)
(***************************************************************************)
MaxMessages == 30
MaxAdded == 4
MaxSummarizations == 3

\* Two contents of 50 characters.
UserText50 == <<"Could you tell me a little more about item seven?!">>
AssistantText50 == <<"Certainly, here is some more detail for that item.">>

\* n messages, user and assistant in turn.
Alternating(n) ==
    [i \in 1..n |-> IF i % 2 = 1 THEN Message("user", UserText50)
                    ELSE Message("assistant", AssistantText50)]

SumOperations == {"trigger", "enable", "disable", "status"}
SumParams(operation) == JDump(JObj(<<"operation">>, <<JStr(operation)>>))
AddedRoles == {"system", "user"}

SumInit ==
    /\ system_prompt \in Prompts
    /\ enable_tool_calling = TRUE
    /\ enable_history_management = FALSE
    /\ enable_builtin_tools = TRUE
    /\ \E n \in 0..MaxMessages :
          history = InitialHistory(system_prompt) \o Alternating(n)
    /\ tools = BuiltinTools
    /\ is_local = TRUE
    /\ store = MemoryTodoStore
    /\ err = InitialErrors
    /\ heap = EmptyHeap
    /\ sum_enabled = TRUE
    /\ pc = "idle"
    /\ stream = FALSE
    /\ input = Empty
    /\ user_message = Empty
    /\ response = Empty
    /\ next_call = 1
    /\ tool_results = Empty
    /\ reentries = 0
    /\ ret = NoReturn
    /\ streamed = << >>
    /\ log = << >>
    /\ sum_applied = 0
    /\ hist0 = 0
    /\ last_op = "create"
    /\ last_reg = tools
    /\ repertoire = 1

\* luup_agent_add_message on a short history.
SumAddMessage ==
    /\ Len(history) < MaxAdded
    /\ \E role \in AddedRoles, content \in Contents :
          history' = Append(history, Message(role, content))
    /\ last_op' = "add_message"
    /\ log' = << >>
    /\ UNCHANGED <<store, err, heap, config, tools, sum_enabled, pc, stream, input, user_message, response,
                   next_call, tool_results, reentries, ret, streamed, sum_applied, hist0,
                   last_reg, repertoire>>

\* execute_tool invokes summarization_tool_callback with one of its four
\* operations; the log keeps this call, hist0 the length of the history before,
\* sum_applied counts the calls that replaced the history (the exploration
\* stops after MaxSummarizations of them).
SumCall ==
    /\ "summarization" \in DOMAIN tools
    /\ sum_applied < MaxSummarizations
    /\ \E operation \in SumOperations, summary_out \in SummaryRuns :
          LET tc == ToolCall("summarization", SumParams(operation))
              r == summarization_tool_callback(tc.parameters_json, history, sum_enabled,
                                               summary_out)
              applied == /\ operation = "trigger"
                         /\ sum_enabled
                         /\ SummarizationApplies(history, summary_out)
          IN  /\ operation # "trigger" => summary_out = ReturnedNull
              /\ history' = r.history
              /\ sum_enabled' = r.enabled
              /\ log' = <<ExecEvent(tc, tools["summarization"], "text",
                                    execute_tool(tc.tool_name, tc.parameters_json, tools,
                                                 Returned(r.result)))>>
              /\ sum_applied' = sum_applied + (IF applied THEN 1 ELSE 0)
              /\ hist0' = Len(history)
    /\ last_op' = "summarization"
    /\ UNCHANGED <<store, err, heap, config, tools, pc, stream, input, user_message, response, next_call,
                   tool_results, reentries, ret, streamed, last_reg, repertoire>>

SumNext ==
    \/ SumAddMessage
    \/ SumCall

SumSpec == SumInit /\ [][SumNext]_vars

IsSummary(m) ==
    m.role = "system" /\ Len(m.content) >= 1 /\ m.content[1] = SummaryPrefix
SummaryIndexes(hist) == {i \in 1..Len(hist) : IsSummary(hist[i])}
NonSystemCount(hist) == Cardinality({i \in 1..Len(hist) : hist[i].role # "system"})
\* The step is a call of the summarization callback with operation trigger
\* while the tool is enabled.
TriggerStep ==
    /\ sum_enabled
    /\ last_op' = "summarization"
    /\ log' # << >>
    /\ log'[1].params = SumParams("trigger")

\* C11: after any number of summarizations the history holds at most one
\* summary message, and it stands before every message that is not a system
\* message, with or without a configured system prompt.
C11_OneSummary ==
    /\ Cardinality(SummaryIndexes(history)) <= 1
    /\ \A i \in SummaryIndexes(history) :
          \A j \in 1..Len(history) : history[j].role # "system" => i < j

\* C12: triggering summarization on 30 alternating user and assistant messages
\* of 50 characters (context size 100, threshold 0.75), with or without a system
\* prompt, leaves the system prompt (if any), one summary message and at most 12
\* of the original messages, with at most 75 estimated tokens in total.
C12_ThirtyMessages ==
    [][(/\ TriggerStep
        /\ history = InitialHistory(system_prompt) \o Alternating(30)
        /\ history' # history)
       => LET p == Len(InitialHistory(system_prompt))
              kept == Len(history') - p - 1
          IN  /\ kept >= 0 /\ kept <= 12
              /\ SubSeq(history', 1, p) = InitialHistory(system_prompt)
              /\ IsSummary(history'[p + 1])
              /\ SubSeq(history', p + 2, Len(history'))
                    = SubSeq(Alternating(30), 30 - kept + 1, 30)
              /\ CurrentTokens(history') <= 75]_vars

\* C13: triggering summarization on a history with fewer than 2 messages that
\* are not system messages leaves the history unchanged and reports success.
C13_ShortHistoryUntouched ==
    [][(TriggerStep /\ NonSystemCount(history) < 2)
       => /\ history' = history
          /\ log'[1].result =
                <<"{", "\"", "message", "\"", ":", "\"", "Summarization applied", "\"",
                  ",", "\"", "success", "\"", ":", "true", "}">>]_vars

\* The step is a call of the backend by respond.
GenerationStep ==
    /\ pc = "generate"
    /\ Len(log') = Len(log) + 1
    /\ log'[Len(log')].kind \in {"gen", "genfail"}

\* C14: when the summarization tool is enabled and the context is reported
\* full, summarization runs before the backend call of respond, at the first
\* call of the turn and at every re-entry: the last thing that ran before the
\* backend call is the summarization.
C14_SummarizeBeforeGenerate ==
    [][(/\ GenerationStep
        /\ "summarization" \in DOMAIN tools
        /\ should_summarize(history, sum_enabled))
       => /\ log # << >>
          /\ log[Len(log)].kind = "exec"
          /\ log[Len(log)].tool_name = "summarization"]_vars

\* The text of the system message at the head of the prompt: the labelled line
\* of format_chat_history, or the ChatML system block.
SystemMessageText ==
    IF system_prompt = Empty THEN Empty
    ELSE IF enable_history_management THEN <<"System: ">> \o system_prompt \o <<"\n\n">>
    ELSE <<"<|im_start|>system\n">> \o system_prompt \o <<ImEnd, "\n">>

Occurs(piece, text) ==
    \E i \in 1..(Len(text) - Len(piece) + 1) : SubSeq(text, i, i + Len(piece) - 1) = piece

\* C15: whenever tool calling is enabled and the registry is not empty, the
\* prompt handed to the backend holds the tool-schema preamble, with an entry
\* (name, description, parameter schema) for every registered tool,
\* immediately after the system message; with history management on or off,
\* with or without a system prompt, on first entries and on re-entries.
C15_SchemaInPrompt ==
    (pc = "generate" /\ ToolsOn) =>
        LET tool_schema == generate_tool_schema(tools)
            n == Len(SystemMessageText)
        IN  /\ \A name \in DOMAIN tools : Occurs(SchemaEntry(name), tool_schema)
            /\ Occurs(tool_schema, PromptPassed)
            /\ system_prompt # Empty =>
                  /\ SubSeq(PromptPassed, 1, n) = SystemMessageText
                  /\ SubSeq(PromptPassed, n + 1, n + Len(tool_schema)) = tool_schema

\* A re-entry with history management off: the tools of the last response
\* have run and the backend is about to be called with the continuation prompt.
ReentryWithoutHistory == pc = "generate" /\ reentries > 0 /\ ~enable_history_management

\* C33: with history management off, the prompt of a tool re-entry holds the
\* raw assistant response that carried the tool call, the formatted
\* tool-result block, and the system prompt if one is configured.
C33_ReentryPromptCarriesCall ==
    ReentryWithoutHistory =>
        /\ Occurs(response, PromptPassed)
        /\ Occurs(tool_results, PromptPassed)
        /\ system_prompt # Empty => Occurs(system_prompt, PromptPassed)

\* What holds instead: the continuation prompt is the ChatML prompt of the
\* tool-result block alone, under the system prompt if any; the response that
\* carried the call and the user's message are not in it.
ReentryPromptIsResultOnly ==
    ReentryWithoutHistory =>
        /\ tool_results # Empty
        /\ Occurs(<<"<|im_start|>user\n">> \o tool_results \o <<ImEnd, "\n">>,
                  PromptPassed)
        /\ system_prompt # Empty => Occurs(system_prompt, PromptPassed)
        /\ ~Occurs(response, PromptPassed)
        /\ ~Occurs(input, PromptPassed)

----------------------------------------------------------------------------
\* Local and remote models. luup_model_create_local sets is_local and takes
\* backend_data from llama_backend_init; luup_model_create_remote clears
\* is_local and takes backend_data from openai_backend_init. respond passes
\* backend_data to llama_backend_generate in both cases.

BackendInit ==
    /\ system_prompt = <<"Test system">>
    /\ enable_tool_calling = TRUE
    /\ enable_history_management = TRUE
    /\ enable_builtin_tools \in BOOLEAN
    /\ history = InitialHistory(system_prompt)
    /\ tools = IF enable_builtin_tools THEN BuiltinTools ELSE << >>
    /\ is_local \in BOOLEAN
    /\ store = MemoryTodoStore
    /\ err = InitialErrors
    /\ heap = EmptyHeap
    /\ sum_enabled = TRUE
    /\ pc = "idle"
    /\ stream = FALSE
    /\ input = Empty
    /\ user_message = Empty
    /\ response = Empty
    /\ next_call = 1
    /\ tool_results = Empty
    /\ reentries = 0
    /\ ret = NoReturn
    /\ streamed = << >>
    /\ log = << >>
    /\ sum_applied = 0
    /\ hist0 = 0
    /\ last_op = "create"
    /\ last_reg = tools
    /\ repertoire \in DOMAIN Repertoires

\* llama_backend_generate casts backend_data to llama_backend_data*. For a
\* remote model the object is an openai_backend_data: the fields read through
\* the cast are not there, and the call may return a text, return null
\* (GenerateFinal, GenerateToolCalls, GenerateFail) or end the process.
GenerateCrash ==
    /\ pc = "generate"
    /\ ~is_local
    /\ log' = Append(log, [GenEvent(Empty) EXCEPT !.kind = "gencrash"])
    /\ pc' = "crashed"
    /\ UNCHANGED <<store, err, heap, config, history, tools, sum_enabled, stream, input, user_message,
                   response, next_call, tool_results, reentries, ret, streamed,
                   sum_applied, hist0, last_op, last_reg, repertoire>>

BackendNext ==
    \/ Next
    \/ GenerateCrash

BackendSpec == BackendInit /\ [][BackendNext]_vars

\* C16: the backend operation respond invokes is the one of the model's kind:
\* the remote generate for a remote model, whose failure is an Http error, and
\* the local generate for a local model, whose failure is an Inference error.
C16_BackendMatchesModel ==
    \A i \in 1..Len(log) :
        log[i].kind \in {"gen", "genfail", "gencrash"} =>
            /\ log[i].backend = IF is_local THEN "llama_backend_generate"
                                ELSE "openai_backend_generate"
            /\ log[i].kind = "genfail" =>
                  log[i].error = IF is_local THEN "LUUP_ERROR_INFERENCE_FAILED"
                                 ELSE "LUUP_ERROR_HTTP_FAILED"


\* An item as the tools write it, for the files that exist before the tool.
StoredItem(kind, id, text) ==
    IF kind = "todo"
    THEN JObj(<<"created", "id", "status", "title">>,
              <<JStr(Timestamp), JNum(ToString(id)), JStr("pending"), JStr(text)>>)
    ELSE JObj(<<"content", "created", "id", "tags">>,
              <<JStr(text), JStr(Timestamp), JNum(ToString(id)), JArr(<< >>)>>)
StoredDoc(kind, ids) ==
    JObj(<<StoreKey(kind)>>, <<JArr([i \in 1..Len(ids) |-> StoredItem(kind, ids[i], "X")])>>)

\* The files found at the path: none, a text that is not JSON, a store whose
\* ids are not in order, and a store that holds the largest int as an id.
InitialFiles(kind) ==
    {NoFile, FileOf(<<"not json">>), FileOf(JDump2(StoredDoc(kind, <<2, 1>>), 0)),
     FileOf(JDump2(StoredDoc(kind, <<IntMax>>), 0))}

StoreKinds == {"todo", "notes"}

Op(operation) == JObj(<<"operation">>, <<JStr(operation)>>)
OpId(operation, id) == JObj(<<"id", "operation">>, <<JNum(ToString(id)), JStr(operation)>>)
TodoCalls ==
    {JObj(<<"operation", "title">>, <<JStr("add"), JStr("X")>>),
     JObj(<<"operation", "title">>, <<JStr("add"), JStr("Y")>>),
     Op("add"), Op("list"), Op("complete"), Op("delete"), Op("archive"),
     OpId("complete", 1), OpId("complete", 2), OpId("delete", 1), OpId("delete", 2)}
NotesCalls ==
    {JObj(<<"content", "operation">>, <<JStr("X"), JStr("create")>>),
     JObj(<<"content", "operation", "tags">>,
          <<JStr("Y"), JStr("create"), JArr(<<JStr("t")>>)>>),
     Op("create"), Op("list"), Op("search"), Op("read"), Op("update"), Op("delete"),
     Op("archive"),
     OpId("read", 1), OpId("delete", 1), OpId("delete", 2),
     JObj(<<"content", "id", "operation">>, <<JStr("Y"), JNum("1"), JStr("update")>>),
     JObj(<<"id", "operation", "tags">>,
          <<JNum("2"), JStr("update"), JArr(<<JStr("u")>>)>>)}

agent == <<config, history, tools, sum_enabled, pc, turn, last_op, last_reg, repertoire>>

StoreInit ==
    /\ system_prompt = Empty
    /\ enable_tool_calling = TRUE
    /\ enable_history_management = TRUE
    /\ enable_builtin_tools = FALSE
    /\ is_local = TRUE
    /\ history = InitialHistory(system_prompt)
    /\ tools = << >>
    /\ sum_enabled = TRUE
    /\ pc = "idle"
    /\ stream = FALSE
    /\ input = Empty
    /\ user_message = Empty
    /\ response = Empty
    /\ next_call = 1
    /\ tool_results = Empty
    /\ reentries = 0
    /\ ret = NoReturn
    /\ streamed = << >>
    /\ log = << >>
    /\ sum_applied = 0
    /\ hist0 = 0
    /\ last_op = "create"
    /\ last_reg = tools
    /\ repertoire = 1
    /\ \E kind \in StoreKinds :
          \/ store = EnabledStore(kind, "", NoFile, FALSE, NewStorage(kind))
          \/ \E file \in InitialFiles(kind), writable \in BOOLEAN :
                \E storage \in load_from_file(kind, NewStorage(kind), "T", file) :
                    store = EnabledStore(kind, "T", file, writable, storage)
    /\ err = InitialErrors
    /\ heap = EmptyHeap

\* One call of a tool's callback through the registry: the storage is
\* replaced by what the callback left and save_to_file has run if it was called.
StoreCall(o) ==
    LET grows == Len(StoredItems(o.data, store.kind)) > Len(StoredItems(store.data, store.kind))
        after == IF o.saved
                 THEN save_to_file(o.data, store.storage_path, store.file, store.writable)
                 ELSE store.file
    IN  /\ grows => store.adds < MaxStoreAdds
        /\ store' = [store EXCEPT !.data = o.data, !.next_id = o.next_id,
                                  !.file = after,
                                  !.result = o.result,
                                  !.saved = o.saved,
                                  !.adds = IF grows THEN @ + 1 ELSE @,
                                  !.last = "call",
                                  !.written = IF o.saved /\ store.storage_path # ""
                                                 /\ store.writable
                                              THEN <<o.data>> ELSE @]
        /\ UNCHANGED <<agent, err, heap>>

TodoCall ==
    /\ store.kind = "todo"
    /\ \E params \in TodoCalls :
          \E o \in todo_tool_callback(JDump(params), Storage(store.data, store.next_id)) :
              StoreCall(o)

NotesCall ==
    /\ store.kind = "notes"
    /\ \E params \in NotesCalls :
          \E o \in notes_tool_callback(JDump(params), Storage(store.data, store.next_id)) :
              StoreCall(o)

\* The tool is made again on the same path (a new agent, or the same one: the
\* registration replaces the entry): a new storage, loaded from the file.
Reenable ==
    /\ store.last = "call"
    /\ \E storage \in load_from_file(store.kind, NewStorage(store.kind),
                                      store.storage_path, store.file) :
          store' = [store EXCEPT !.data = storage.data, !.next_id = storage.next_id,
                                 !.result = Empty, !.saved = FALSE,
                                 !.last = "enable"]
    /\ UNCHANGED <<agent, err, heap>>

\* luup_agent_enable_builtin_todo
EnableBuiltinTodo ==
    /\ store.kind = "todo"
    /\ Reenable

\* luup_agent_enable_builtin_notes
EnableBuiltinNotes ==
    /\ store.kind = "notes"
    /\ Reenable

StoreNext ==
    \/ TodoCall
    \/ NotesCall
    \/ EnableBuiltinTodo
    \/ EnableBuiltinNotes

StoreSpec == StoreInit /\ [][StoreNext]_vars

\* The items of the store and their ids.
Items == StoredItems(store.data, store.kind)
IdOf(item) == IntOf(JAt(item, "id").s)
RECURSIVE MaxId(_)
MaxId(items) ==
    IF items = << >> THEN 0
    ELSE LET m == MaxId(Tail(items))
         IN  IF IdOf(Head(items)) > m THEN IdOf(Head(items)) ELSE m
IsError(result) == Len(result) >= 3 /\ SubSeq(result, 1, 3) = <<"{", "\"", "error">>

\* C17: in every reachable state of a todo or notes store (after a load from
\* any file and after any sequence of add/create, complete, update and
\* delete), next_id is strictly greater than the id of every item present.
C17_NextIdAboveIds ==
    \A i \in 1..Len(Items) : IdOf(Items[i]) < store.next_id

\* The store of the todo lifecycle: X with id 1, completed, and Y with id 2.
LifecycleData ==
    JObj(<<"todos">>,
         <<JArr(<<JObj(<<"completed", "created", "id", "status", "title">>,
                       <<JStr(Timestamp), JStr(Timestamp), JNum("1"),
                         JStr("completed"), JStr("X")>>),
                  JObj(<<"created", "id", "status", "title">>,
                       <<JStr(Timestamp), JNum("2"), JStr("pending"), JStr("Y")>>)>>)>>)

\* C18: making the tool again on the path of a store it has written reloads
\* exactly the items last written (same ids, fields and order) and sets
\* next_id to the largest id + 1 (ids assigned without overflow), and an add
\* gives the new item the id next_id: after add X, add Y, complete 1 and a
\* reload the list holds ids 1 and 2 with 1 completed and the next add
\* yields id 3.
C18_ReloadRoundTrip ==
    [][/\ (store'.last = "enable" /\ store.written # << >>) =>
              LET items == StoredItems(store'.data, store.kind)
              IN  /\ store'.data = store.written[1]
                  /\ (\A i \in 1..Len(items) : IdOf(items[i]) \in 1..(IntMax - 1)) =>
                        store'.next_id = MaxId(items) + 1
                  /\ store.written[1] = LifecycleData => store'.next_id = 3
       /\ (store'.last = "call" /\ store'.adds > store.adds) =>
              LET items == StoredItems(store'.data, store.kind)
              IN  /\ SubSeq(items, 1, Len(items) - 1) = Items
                  /\ IdOf(items[Len(items)]) = store.next_id]_vars

C18_Witness ==
    /\ store.kind = "todo"
    /\ store.last = "enable"
    /\ store.written = <<LifecycleData>>
    /\ store.data = LifecycleData
    /\ store.next_id = 3
    /\ todo_tool_callback(JDump(Op("list")), Storage(store.data, store.next_id))
          = {Outcome(JDump(JObj(<<"todos">>, <<JAt(LifecycleData, "todos")>>)),
                     Storage(store.data, store.next_id), FALSE)}

\* C19: every successful mutating operation of a file-backed tool (todo add,
\* complete, delete; notes create, update, delete) has written the full
\* current store to the file when the callback returns: the file content is
\* the dump of the store in memory.
C19_WrittenBeforeReturn ==
    [][(store'.last = "call" /\ store'.saved /\ store.storage_path # "")
       => store'.file = FileOf(JDump2(store'.data, 0))]_vars

\* The calls of the todo tool that fail on a store, with the error they give
\* (<< >>: an error object whose text the claim leaves open).
NotFoundCall(params) ==
    /\ JAt(params, "operation").s \in {"complete", "delete"}
    /\ JContains(params, "id")
    /\ \A i \in 1..Len(Items) : IdOf(Items[i]) # IntOf(JAt(params, "id").s)
MissingArgumentCall(params) ==
    \/ JAt(params, "operation").s = "add" /\ ~JContains(params, "title")
    \/ JAt(params, "operation").s \in {"complete", "delete"} /\ ~JContains(params, "id")
UnknownOperationCall(params) ==
    JAt(params, "operation").s \notin {"add", "list", "complete", "delete"}

\* C20: in every reachable todo store, an operation that fails (complete or
\* delete with an id that is not present, which yields
\* {"error":"Todo not found"}; add without a title; complete or delete
\* without an id; an unknown operation) returns an error object, leaves the
\* item list and next_id as they are and does not save; and a call that has
\* returned an error object has not saved.
C20_FailedTodoOp ==
    store.kind = "todo" =>
        /\ \A params \in TodoCalls :
              (NotFoundCall(params) \/ MissingArgumentCall(params)
               \/ UnknownOperationCall(params)) =>
                  \A o \in todo_tool_callback(JDump(params),
                                              Storage(store.data, store.next_id)) :
                      /\ IsError(o.result)
                      /\ NotFoundCall(params) => o.result = StoreError("Todo not found")
                      /\ o.data = store.data
                      /\ o.next_id = store.next_id
                      /\ ~o.saved
        /\ (store.last = "call" /\ IsError(store.result)) => ~store.saved

C20_Witness ==
    /\ store.kind = "todo"
    /\ store.last = "call"
    /\ store.storage_path # ""
    /\ store.writable
    /\ store.written # << >>
    /\ Items # << >>
    /\ store.result = StoreError("Todo not found")

(***************************************************************************)
(* Error reporting (error_handling.cpp).                                   *)
(***************************************************************************)
error_code_to_string(code) ==
    CASE code = "LUUP_SUCCESS" -> "Success"
      [] code = "LUUP_ERROR_INVALID_PARAM" -> "Invalid parameter"
      [] code = "LUUP_ERROR_OUT_OF_MEMORY" -> "Out of memory"
      [] code = "LUUP_ERROR_MODEL_NOT_FOUND" -> "Model file not found"
      [] code = "LUUP_ERROR_INFERENCE_FAILED" -> "Inference failed"
      [] code = "LUUP_ERROR_TOOL_NOT_FOUND" -> "Tool not found"
      [] code = "LUUP_ERROR_JSON_PARSE_FAILED" -> "JSON parse failed"
      [] code = "LUUP_ERROR_HTTP_FAILED" -> "HTTP request failed"
      [] code = "LUUP_ERROR_BACKEND_INIT_FAILED" -> "Backend initialization failed"
      [] OTHER -> "Unknown error"

\* What luup_set_error leaves in the calling thread's slot: the code, and the
\* message behind the bracketed name of the code (the name alone when the
\* message is empty).
luup_set_error(code, message) ==
    [code |-> code,
     message |-> IF message # Empty
                 THEN <<"[", error_code_to_string(code), "] ">> \o message
                 ELSE <<error_code_to_string(code)>>]

\* What luup_clear_error leaves in the slot.
luup_clear_error == [code |-> "LUUP_SUCCESS", message |-> Empty]

\* A call of luup_set_error or of luup_clear_error that an operation makes.
SetError(code, message) == [kind |-> "set", code |-> code, message |-> message]
ClearError == [kind |-> "clear", code |-> "LUUP_SUCCESS", message |-> Empty]

\* What an operation does: whether it succeeded, what it returned, the calls
\* of luup_set_error and luup_clear_error it made, in order, and the objects
\* it allocated with new and did not delete, in the order of allocation.
Call(ok, result, effects, objects) ==
    [ok |-> ok, result |-> result, effects |-> effects, objects |-> objects]
Fails(result, code, message) == Call(FALSE, result, <<SetError(code, message)>>, << >>)

\* delete of the object of the given kind.
RECURSIVE Deleted(_, _)
Deleted(objects, kind) ==
    IF objects = << >> THEN << >>
    ELSE IF Head(objects) = kind THEN Tail(objects)
    ELSE <<Head(objects)>> \o Deleted(Tail(objects), kind)


(***************************************************************************)
(* Model construction (model.cpp, local_llama.cpp, remote_api.cpp).        *)
(***************************************************************************)

\* The files of the machine: what fopen and llama.cpp find at a path.
FileKind(path) ==
    CASE path = <<"model.gguf">> -> "model"
      [] path = <<"broken.gguf">> -> "not a model"
      [] path = <<"huge.gguf">> -> "no context"
      [] OTHER -> "absent"
file_exists(path) == FileKind(path) # "absent"

llama_backend_init(model_path, gpu_layers) ==
    IF ~file_exists(model_path)
    THEN Fails("null", "LUUP_ERROR_MODEL_NOT_FOUND",
               <<"Model file ", "not found", ": ">> \o model_path)
    ELSE LET backend == <<"llama_backend_data">>
             failed(message) ==
                 Call(FALSE, "null", <<SetError("LUUP_ERROR_BACKEND_INIT_FAILED", message)>>,
                      Deleted(backend, "llama_backend_data"))
         IN  IF gpu_layers = -1 /\ FileKind(model_path) = "not a model"
             THEN failed(<<"Failed to load model for GPU layer detection">>)
             ELSE IF FileKind(model_path) = "not a model"
             THEN failed(<<"Failed to load model from file">>)
             ELSE IF FileKind(model_path) = "no context"
             THEN failed(<<"Failed to create llama context">>)
             ELSE Call(TRUE, "llama_backend_data", <<ClearError>>, backend)

\* luup_model_create_local that reports once more when the backend has failed.
luup_model_create_local_ReportsAgain(cfg) ==
    IF cfg.null \/ cfg.path.null
    THEN Fails("null", "LUUP_ERROR_INVALID_PARAM", <<"Invalid model configuration">>)
    ELSE LET backend == llama_backend_init(cfg.path.s, cfg.gpu_layers)
         IN  IF backend.result = "null"
             THEN Call(FALSE, "null", backend.effects \o backend.effects,
                       Deleted(<<"luup_model">> \o backend.objects, "luup_model"))
             ELSE Call(TRUE, "luup_model", backend.effects,
                       <<"luup_model">> \o backend.objects)

luup_model_create_local(cfg) ==
    IF cfg.null \/ cfg.path.null
    THEN Fails("null", "LUUP_ERROR_INVALID_PARAM", <<"Invalid model configuration">>)
    ELSE LET backend == llama_backend_init(cfg.path.s, cfg.gpu_layers)
         IN  IF backend.result = "null"
             THEN Call(FALSE, "null", backend.effects,
                       Deleted(<<"luup_model">> \o backend.objects, "luup_model"))
             ELSE Call(TRUE, "luup_model", backend.effects,
                       <<"luup_model">> \o backend.objects)

\* Texts that parse_url reads are sequences of characters.
Digits == {"0", "1", "2", "3", "4", "5", "6", "7", "8", "9"}
DigitValue(c) ==
    CASE c = "0" -> 0 [] c = "1" -> 1 [] c = "2" -> 2 [] c = "3" -> 3 [] c = "4" -> 4
      [] c = "5" -> 5 [] c = "6" -> 6 [] c = "7" -> 7 [] c = "8" -> 8 [] c = "9" -> 9
LineTerminators == {"\n", "\r"}

\* std::stoi of a run of digits: the value, or -1 for std::out_of_range.
RECURSIVE stoi(_, _)
stoi(digits, acc) ==
    IF digits = << >> THEN acc
    ELSE IF acc > (IntMax - DigitValue(Head(digits))) \div 10 THEN -1
    ELSE stoi(Tail(digits), 10 * acc + DigitValue(Head(digits)))

\* The end of the longest run from position from of characters that are in
\* (inside) or not in (~inside) the set: the position behind the run.
RECURSIVE RunEnd(_, _, _, _)
RunEnd(url, from, chars, inside) ==
    IF from > Len(url) \/ ((url[from] \in chars) # inside) THEN from
    ELSE RunEnd(url, from + 1, chars, inside)

\* std::regex_match of ^(https?)://([^:/]+)(?::(\d+))?(/.*)?$ behind a
\* scheme of the given length: matched, and the port read by std::stoi
\* (thrown: std::stoi threw).
UrlBehindScheme(url, scheme_len) ==
    LET host == scheme_len + 4
        host_end == RunEnd(url, host, {":", "/"}, FALSE)
        has_port == host_end <= Len(url) /\ url[host_end] = ":"
        port_end == IF has_port THEN RunEnd(url, host_end + 1, Digits, TRUE) ELSE host_end
        port == IF has_port THEN stoi(SubSeq(url, host_end + 1, port_end - 1), 0) ELSE 0
        matched ==
            /\ Len(url) >= scheme_len + 3
            /\ SubSeq(url, scheme_len + 1, scheme_len + 3) = <<":", "/", "/">>
            /\ host_end > host
            /\ has_port => port_end > host_end + 1
            /\ \/ port_end > Len(url)
               \/ /\ url[port_end] = "/"
                  /\ \A i \in port_end..Len(url) : url[i] \notin LineTerminators
    IN  [matched |-> matched, thrown |-> matched /\ has_port /\ port = -1]

parse_url(url) ==
    LET https == UrlBehindScheme(url, 5)
        http == UrlBehindScheme(url, 4)
    IN  IF Len(url) >= 5 /\ SubSeq(url, 1, 5) = <<"h", "t", "t", "p", "s">> /\ https.matched
        THEN https
        ELSE IF Len(url) >= 4 /\ SubSeq(url, 1, 4) = <<"h", "t", "t", "p">> /\ http.matched
        THEN http
        ELSE [matched |-> FALSE, thrown |-> FALSE]

DefaultEndpoint ==
    <<"h", "t", "t", "p", "s", ":", "/", "/", "a", "p", "i", ".", "o", "p", "e", "n", "a", "i",
      ".", "c", "o", "m", "/", "v", "1">>

openai_backend_init(api_endpoint, api_key, model_name) ==
    IF api_key.null \/ api_key.s = Empty
    THEN Fails("null", "LUUP_ERROR_INVALID_PARAM", <<"API key is required for remote models">>)
    ELSE IF model_name.null \/ model_name.s = Empty
    THEN Fails("null", "LUUP_ERROR_INVALID_PARAM",
               <<"Model name is required for remote models">>)
    ELSE LET endpoint == IF ~api_endpoint.null /\ api_endpoint.s # Empty
                         THEN api_endpoint.s ELSE DefaultEndpoint
             parsed == parse_url(endpoint)
         IN  IF parsed.thrown
             THEN Fails("null", "LUUP_ERROR_BACKEND_INIT_FAILED", <<"stoi">>)
             ELSE IF ~parsed.matched
             THEN Fails("null", "LUUP_ERROR_INVALID_PARAM",
                        <<"Invalid API endpoint URL: ">> \o endpoint)
             ELSE Call(TRUE, "openai_backend_data", <<ClearError>>, <<"openai_backend_data">>)

\* luup_model_create_remote without the delete of the model whose backend
\* could not be initialised.
luup_model_create_remote_KeepsModel(cfg) ==
    IF cfg.null \/ cfg.path.null
    THEN Fails("null", "LUUP_ERROR_INVALID_PARAM", <<"Invalid model configuration">>)
    ELSE IF cfg.api_key.null \/ cfg.api_key.s = Empty
    THEN Fails("null", "LUUP_ERROR_INVALID_PARAM", <<"API key is required for remote models">>)
    ELSE LET api_base_url == IF cfg.api_base_url.null THEN Str(DefaultEndpoint)
                             ELSE cfg.api_base_url
             backend == openai_backend_init(api_base_url, cfg.api_key, cfg.path)
         IN  IF backend.result = "null"
             THEN Call(FALSE, "null", backend.effects, <<"luup_model">> \o backend.objects)
             ELSE Call(TRUE, "luup_model", backend.effects,
                       <<"luup_model">> \o backend.objects)

luup_model_create_remote(cfg) ==
    IF cfg.null \/ cfg.path.null
    THEN Fails("null", "LUUP_ERROR_INVALID_PARAM", <<"Invalid model configuration">>)
    ELSE IF cfg.api_key.null \/ cfg.api_key.s = Empty
    THEN Fails("null", "LUUP_ERROR_INVALID_PARAM", <<"API key is required for remote models">>)
    ELSE LET api_base_url == IF cfg.api_base_url.null THEN Str(DefaultEndpoint)
                             ELSE cfg.api_base_url
             backend == openai_backend_init(api_base_url, cfg.api_key, cfg.path)
         IN  IF backend.result = "null"
             THEN Call(FALSE, "null", backend.effects,
                       Deleted(<<"luup_model">> \o backend.objects, "luup_model"))
             ELSE Call(TRUE, "luup_model", backend.effects,
                       <<"luup_model">> \o backend.objects)

luup_model_get_info(model_null, out_info_null) ==
    IF model_null \/ out_info_null
    THEN Fails("LUUP_ERROR_INVALID_PARAM", "LUUP_ERROR_INVALID_PARAM", <<"Invalid parameters">>)
    ELSE Call(TRUE, "LUUP_SUCCESS", <<ClearError>>, << >>)

(***************************************************************************)
(* The agent's operations as callers of the error functions (agent.cpp,    *)
(* todo_list.cpp, notes.cpp, summarization.cpp).                           *)
(***************************************************************************)
\* luup_agent_enable_builtin_summarization asks luup_model_get_info for the
\* context size, so it clears the slot; the todo and notes tools touch no
\* error state when the agent is given.
luup_agent_enable_builtin_todo ==
    Call(TRUE, "LUUP_SUCCESS", << >>, <<"TodoListStorage">>)
luup_agent_enable_builtin_notes ==
    Call(TRUE, "LUUP_SUCCESS", << >>, <<"NotesStorage">>)
luup_agent_enable_builtin_summarization ==
    Call(TRUE, "LUUP_SUCCESS", luup_model_get_info(FALSE, FALSE).effects,
         <<"SummarizationState">>)

luup_agent_create(config_null, model_null, builtin_tools) ==
    IF config_null \/ model_null
    THEN Fails("null", "LUUP_ERROR_INVALID_PARAM", <<"Invalid agent configuration">>)
    ELSE IF builtin_tools
    THEN Call(TRUE, "luup_agent",
              luup_agent_enable_builtin_todo.effects
                \o luup_agent_enable_builtin_notes.effects
                \o luup_agent_enable_builtin_summarization.effects,
              <<"luup_agent">> \o luup_agent_enable_builtin_todo.objects
                \o luup_agent_enable_builtin_notes.objects
                \o luup_agent_enable_builtin_summarization.objects)
    ELSE Call(TRUE, "luup_agent", << >>, <<"luup_agent">>)

luup_agent_register_tool(agent_null, tool_null, name_null, callback_null) ==
    IF agent_null \/ tool_null \/ name_null \/ callback_null
    THEN Fails("LUUP_ERROR_INVALID_PARAM", "LUUP_ERROR_INVALID_PARAM",
               <<"Invalid parameters for tool registration">>)
    ELSE Call(TRUE, "LUUP_SUCCESS", << >>, << >>)

luup_agent_add_message(agent_null, role_null, content_null) ==
    IF agent_null \/ role_null \/ content_null
    THEN Fails("LUUP_ERROR_INVALID_PARAM", "LUUP_ERROR_INVALID_PARAM", <<"Invalid parameters">>)
    ELSE Call(TRUE, "LUUP_SUCCESS", << >>, << >>)

luup_agent_clear_history(agent_null) ==
    IF agent_null
    THEN Fails("LUUP_ERROR_INVALID_PARAM", "LUUP_ERROR_INVALID_PARAM", <<"Invalid agent handle">>)
    ELSE Call(TRUE, "LUUP_SUCCESS", << >>, << >>)

luup_agent_get_history_json(agent_null) ==
    IF agent_null
    THEN Fails("null", "LUUP_ERROR_INVALID_PARAM", <<"Invalid agent handle">>)
    ELSE Call(TRUE, "text", << >>, << >>)

\* llama_backend_generate as respond sees it: a generation that succeeds
\* clears the slot, one that fails reports an inference error.
GenerationEffects(succeeds) ==
    IF succeeds THEN ClearError
    ELSE SetError("LUUP_ERROR_INFERENCE_FAILED", <<"Failed to decode prompt">>)

\* luup_agent_generate on a local model whose generations succeed or fail as
\* listed: every generation but the last is one that led to tool calls, and
\* neither the tools nor the agent report or clear anything in between.
luup_agent_generate(agent_null, message_null, generations) ==
    IF agent_null \/ message_null
    THEN Fails("null", "LUUP_ERROR_INVALID_PARAM", <<"Invalid parameters for generation">>)
    ELSE Call(generations[Len(generations)],
              IF generations[Len(generations)] THEN "text" ELSE "null",
              [i \in 1..Len(generations) |-> GenerationEffects(generations[i])], << >>)

(***************************************************************************)
(* The error state under calls from two threads.  What a call does to its  *)
(* own thread's slot happens with the call; taking callback_mutex, the     *)
(* two stores of luup_set_error_callback and the invocation of the         *)
(* callback are steps of their own.                                        *)
(***************************************************************************)
ErrLocalConfigs ==
    {NullModelConfig,
     ModelConfig(Str(<<"missing.gguf">>), 0, Null, Null),
     ModelConfig(Str(<<"model.gguf">>), 0, Null, Null)}
ErrRemoteConfigs ==
    {ModelConfig(Str(<<"gpt-4">>), 0, Null, Null),
     ModelConfig(Str(<<"gpt-4">>), 0, Str(<<"test-key">>), Null)}
Registrations == {Registration("cb1", "ud1"), Registration("cb2", "ud2"), NoCallback}
Generations == {<<TRUE>>, <<FALSE>>, <<TRUE, TRUE>>, <<TRUE, FALSE>>}

\* A handle argument: nullptr, or the object when one has been created.
Handles(created) == IF created THEN {TRUE, FALSE} ELSE {TRUE}

\* The registrations of luup_set_error_callback calls that have begun and
\* not returned.
Registering(e) == {e.arg[u] : u \in {v \in Threads : e.pc[v] \in {"reg_lock", "reg_fn", "reg_ud"}}}

\* std::lock_guard on callback_mutex: the thread goes on when no thread holds it.
lock_guard_Unlocked(mutex) == TRUE
lock_guard(mutex) == mutex = 0

\* The calls of luup_clear_error and luup_set_error of an operation of thread
\* t, up to the point where luup_set_error waits for callback_mutex; an
\* operation that has made all its calls returns.
RECURSIVE RunEffects(_, _, _)
RunEffects(e, t, effects) ==
    IF effects = << >>
    THEN [e EXCEPT !.pc[t] = "idle", !.pending[t] = << >>]
    ELSE IF Head(effects).kind = "clear"
    THEN RunEffects([e EXCEPT !.last_error_code[t] = luup_clear_error.code,
                              !.last_error_message[t] = luup_clear_error.message],
                    t, Tail(effects))
    ELSE LET slot == luup_set_error(Head(effects).code, Head(effects).message)
         IN  [e EXCEPT !.last_error_code[t] = slot.code,
                       !.last_error_message[t] = slot.message,
                       !.pc[t] = "lock",
                       !.pending[t] = Tail(effects),
                       !.allowed[t] = {e.installed} \cup Registering(e)]

ErrorInit ==
    /\ system_prompt = Empty
    /\ enable_tool_calling = TRUE
    /\ enable_history_management = TRUE
    /\ enable_builtin_tools = FALSE
    /\ is_local = TRUE
    /\ history = InitialHistory(system_prompt)
    /\ tools = << >>
    /\ sum_enabled = TRUE
    /\ pc = "idle"
    /\ stream = FALSE
    /\ input = Empty
    /\ user_message = Empty
    /\ response = Empty
    /\ next_call = 1
    /\ tool_results = Empty
    /\ reentries = 0
    /\ ret = NoReturn
    /\ streamed = << >>
    /\ log = << >>
    /\ sum_applied = 0
    /\ hist0 = 0
    /\ last_op = "create"
    /\ last_reg = tools
    /\ repertoire = 1
    /\ store = MemoryTodoStore
    /\ err = InitialErrors
    /\ heap = EmptyHeap

\* Thread t calls an operation that does what call says.
Operation(t, op, call) ==
    /\ err.pc[t] = "idle"
    /\ err' = RunEffects([err EXCEPT !.op[t] = op,
                                     !.ok[t] = call.ok,
                                     !.result[t] = call.result,
                                     !.invoked[t] = << >>,
                                     !.allowed[t] = {},
                                     !.model = @ \/ call.result = "luup_model",
                                     !.agent = @ \/ call.result = "luup_agent"],
                         t, call.effects)
    /\ UNCHANGED <<agent, store, heap>>

ModelCreateLocal ==
    \E t \in err.threads, cfg \in ErrLocalConfigs :
        Operation(t, "luup_model_create_local", luup_model_create_local(cfg))

ModelCreateRemote ==
    \E t \in err.threads, cfg \in ErrRemoteConfigs :
        Operation(t, "luup_model_create_remote", luup_model_create_remote(cfg))

ModelGetInfo ==
    \E t \in err.threads, model_null \in Handles(err.model) :
        Operation(t, "luup_model_get_info", luup_model_get_info(model_null, FALSE))

AgentCreate ==
    \E t \in err.threads, model_null \in Handles(err.model), builtin_tools \in BOOLEAN :
        Operation(t, "luup_agent_create", luup_agent_create(FALSE, model_null, builtin_tools))

AgentRegisterTool ==
    \E t \in err.threads, agent_null \in Handles(err.agent), callback_null \in BOOLEAN :
        Operation(t, "luup_agent_register_tool",
                  luup_agent_register_tool(agent_null, FALSE, FALSE, callback_null))

AgentAddMessage ==
    \E t \in err.threads, agent_null \in Handles(err.agent) :
        Operation(t, "luup_agent_add_message", luup_agent_add_message(agent_null, FALSE, FALSE))

AgentClearHistory ==
    \E t \in err.threads, agent_null \in Handles(err.agent) :
        Operation(t, "luup_agent_clear_history", luup_agent_clear_history(agent_null))

AgentGetHistoryJson ==
    \E t \in err.threads, agent_null \in Handles(err.agent) :
        Operation(t, "luup_agent_get_history_json", luup_agent_get_history_json(agent_null))

AgentGenerate ==
    \E t \in err.threads, agent_null \in Handles(err.agent), generations \in Generations :
        Operation(t, "luup_agent_generate",
                  luup_agent_generate(agent_null, FALSE, generations))

\* luup_set_error_callback is called: the thread waits for callback_mutex.  A
\* report that is under way may run the callback given here.
SetErrorCallback ==
    \E t \in err.threads, registration \in Registrations :
        /\ err.pc[t] = "idle"
        /\ err' = [err EXCEPT !.pc[t] = "reg_lock",
                              !.arg[t] = registration,
                              !.op[t] = "luup_set_error_callback",
                              !.ok[t] = TRUE,
                              !.result[t] = "none",
                              !.invoked[t] = << >>,
                              !.allowed = [u \in Threads |->
                                              IF err.pc[u] \in {"lock", "call"}
                                              THEN err.allowed[u] \cup {registration}
                                              ELSE err.allowed[u]]]
        /\ UNCHANGED <<agent, store, heap>>

\* error_handling.cpp:47
LockForRegistration ==
    \E t \in err.threads :
        /\ err.pc[t] = "reg_lock"
        /\ lock_guard(err.callback_mutex)
        /\ err' = [err EXCEPT !.pc[t] = "reg_fn", !.callback_mutex = t]
        /\ UNCHANGED <<agent, store, heap>>

\* error_handling.cpp:48
StoreCallback ==
    \E t \in err.threads :
        /\ err.pc[t] = "reg_fn"
        /\ err' = [err EXCEPT !.pc[t] = "reg_ud", !.global_error_callback = err.arg[t].fn]
        /\ UNCHANGED <<agent, store, heap>>

\* error_handling.cpp:49-50: the second store, the unlock and the return.
StoreUserData ==
    \E t \in err.threads :
        /\ err.pc[t] = "reg_ud"
        /\ err' = [err EXCEPT !.pc[t] = "idle",
                              !.global_error_callback_user_data = err.arg[t].ud,
                              !.installed = err.arg[t],
                              !.callback_mutex = 0]
        /\ UNCHANGED <<agent, store, heap>>

\* error_handling.cpp:68
LockForReport ==
    \E t \in err.threads :
        /\ err.pc[t] = "lock"
        /\ lock_guard(err.callback_mutex)
        /\ err' = [err EXCEPT !.pc[t] = "call", !.callback_mutex = t]
        /\ UNCHANGED <<agent, store, heap>>

\* error_handling.cpp:69-72: the callback, when there is one, is called with
\* the code, the text of the slot and the user data; then the unlock and the
\* rest of the operation.
InvokeCallback ==
    \E t \in err.threads :
        /\ err.pc[t] = "call"
        /\ err' = RunEffects(
                    [err EXCEPT !.callback_mutex = 0,
                                !.invoked[t] =
                                    IF err.global_error_callback # "null"
                                    THEN Append(@, [fn |-> err.global_error_callback,
                                                    ud |-> err.global_error_callback_user_data,
                                                    code |-> err.last_error_code[t],
                                                    message |-> err.last_error_message[t]])
                                    ELSE @],
                    t, err.pending[t])
        /\ UNCHANGED <<agent, store, heap>>

ErrorNext ==
    \/ ModelCreateLocal
    \/ ModelCreateRemote
    \/ ModelGetInfo
    \/ AgentCreate
    \/ AgentRegisterTool
    \/ AgentAddMessage
    \/ AgentClearHistory
    \/ AgentGetHistoryJson
    \/ AgentGenerate
    \/ SetErrorCallback
    \/ LockForRegistration
    \/ StoreCallback
    \/ StoreUserData
    \/ LockForReport
    \/ InvokeCallback

ErrorSpec == ErrorInit /\ [][ErrorNext]_vars

\* What a failing operation returns: a null handle or text, or an error code.
Sentinels ==
    {"null", "LUUP_ERROR_INVALID_PARAM", "LUUP_ERROR_OUT_OF_MEMORY",
     "LUUP_ERROR_INFERENCE_FAILED", "LUUP_ERROR_JSON_PARSE_FAILED"}
Returned21(t) == err.pc[t] = "idle" /\ err.op[t] \notin {"none", "luup_set_error_callback"}

\* C21: when a core operation has returned, the calling thread's slot is set
\* and the result is a sentinel if the operation failed, and the slot is
\* empty if it succeeded, whatever the thread's earlier calls left there.
C21_SlotFollowsOutcome ==
    \A t \in err.threads :
        Returned21(t) =>
            IF err.ok[t]
            THEN err.last_error_message[t] = Empty
            ELSE err.last_error_message[t] # Empty /\ err.result[t] \in Sentinels

\* A callback was registered when the report of thread t began.
CallbackRegistered(t) == \A r \in err.allowed[t] : r.fn # "null"

CallbackInit ==
    /\ system_prompt = Empty
    /\ enable_tool_calling = TRUE
    /\ enable_history_management = TRUE
    /\ enable_builtin_tools = FALSE
    /\ is_local = TRUE
    /\ history = InitialHistory(system_prompt)
    /\ tools = << >>
    /\ sum_enabled = TRUE
    /\ pc = "idle"
    /\ stream = FALSE
    /\ input = Empty
    /\ user_message = Empty
    /\ response = Empty
    /\ next_call = 1
    /\ tool_results = Empty
    /\ reentries = 0
    /\ ret = NoReturn
    /\ streamed = << >>
    /\ log = << >>
    /\ sum_applied = 0
    /\ hist0 = 0
    /\ last_op = "create"
    /\ last_reg = tools
    /\ repertoire = 1
    /\ store = MemoryTodoStore
    /\ err = ErrorsAtStart(Threads)
    /\ heap = EmptyHeap

CallbackNext ==
    \/ AgentClearHistory
    \/ SetErrorCallback
    \/ LockForRegistration
    \/ StoreCallback
    \/ StoreUserData
    \/ LockForReport
    \/ InvokeCallback

CallbackSpec == CallbackInit /\ [][CallbackNext]_vars

\* C23: every invocation of the error callback uses the function and the user
\* data of one registration, and that registration is the one that had
\* returned last when the report began or one whose luup_set_error_callback
\* was under way at that moment or began later: never the function of one
\* registration with the user data of another, and never a callback that a
\* registration which had returned before the report had replaced.
C23_PairsInstalledTogether ==
    \A t \in err.threads :
        \A i \in 1..Len(err.invoked[t]) :
            Registration(err.invoked[t][i].fn, err.invoked[t][i].ud) \in err.allowed[t]

\* A callback was invoked by a report during which another thread registered
\* a different one.
C23_Witness ==
    \E t \in err.threads :
        /\ Len(err.invoked[t]) = 1
        /\ Cardinality(err.allowed[t]) >= 2
        /\ \E u \in err.threads \ {t} : err.op[u] = "luup_set_error_callback"


(***************************************************************************)
(* The lifetime of the objects (model.cpp, agent.cpp, the built-in tools): *)
(* what each operation allocates with new and what it deletes.             *)
(***************************************************************************)
\* Endpoint URLs, character by character.
NotAValidUrl ==
    <<"n", "o", "t", "-", "a", "-", "v", "a", "l", "i", "d", "-", "u", "r", "l">>
FtpUrl ==
    <<"f", "t", "p", ":", "/", "/", "h", "/", "v", "1">>
NoHostUrl ==
    <<"h", "t", "t", "p", ":", "/", "/">>
EmptyPortUrl ==
    <<"h", "t", "t", "p", ":", "/", "/", "h", ":", "/", "v", "1">>
HugePortUrl ==
    <<"h", "t", "t", "p", "s", ":", "/", "/", "h", ":", "9", "9", "9", "9", "9", "9", "9", "9",
      "9", "9", "9", "/", "v", "1">>
LocalUrl ==
    <<"h", "t", "t", "p", ":", "/", "/", "l", "o", "c", "a", "l", "h", "o", "s", "t", ":", "1",
      "1", "4", "3", "4", "/", "v", "1">>
MalformedUrls == {NotAValidUrl, FtpUrl, NoHostUrl, EmptyPortUrl, HugePortUrl}

MaxObjects == 7

\* An allocated object: its address, its type, the object that created it
\* (0 for a handle given to the caller), the model an agent points to, and an
\* agent's tools map as pairs of a name and the user_data pointer of the entry.
Object(id, kind, owner, model, agent_tools) ==
    [id |-> id, kind |-> kind, owner |-> owner, model |-> model, tools |-> agent_tools]

StorageKinds == {"TodoListStorage", "NotesStorage", "SummarizationState"}
ToolName(kind) ==
    CASE kind = "TodoListStorage" -> "todo"
      [] kind = "NotesStorage" -> "notes"
      [] kind = "SummarizationState" -> "summarization"

\* agent->tools[tool->name] = info: the entry of that name is overwritten.
RegisterEntry(agent_tools, name, user_data) ==
    {e \in agent_tools : e[1] # name} \cup {<<name, user_data>>}

\* The error slot after the reports and the clears of a call.
RECURSIVE SlotAfter(_, _)
SlotAfter(slot, effects) ==
    IF effects = << >> THEN slot
    ELSE SlotAfter(IF Head(effects).kind = "set"
                   THEN luup_set_error(Head(effects).code, Head(effects).message)
                   ELSE luup_clear_error,
                   Tail(effects))

LiveModels == {o.id : o \in {x \in heap.objects : x.kind = "luup_model"}}
LiveAgents == {o.id : o \in {x \in heap.objects : x.kind = "luup_agent"}}

\* The heap after a constructor: the objects the call kept are allocated one
\* after the other; the first is the handle, the others belong to it.
Constructed(op, arg, call, model) ==
    LET n == Len(call.objects)
        root == heap.allocated + 1
        made == {Object(heap.allocated + i, call.objects[i],
                        IF i = 1 THEN 0 ELSE root,
                        IF i = 1 THEN model ELSE 0,
                        IF i = 1
                        THEN {<<ToolName(call.objects[j]), heap.allocated + j>> :
                                  j \in {k \in 2..n : call.objects[k] \in StorageKinds}}
                        ELSE {}) : i \in 1..n}
        slot == SlotAfter([code |-> heap.last_error_code,
                           message |-> heap.last_error_message], call.effects)
    IN  [objects |-> heap.objects \cup made,
         allocated |-> heap.allocated + n,
         last_error_code |-> slot.code,
         last_error_message |-> slot.message,
         op |-> op, arg |-> arg, model |-> model, ok |-> call.ok,
         result |-> IF call.ok THEN root ELSE 0,
         before |-> heap.objects]

\* The heap after luup_agent_enable_builtin_*: the storage is allocated and
\* the entry of the tool's name points to it.
Enabled(op, a, call) ==
    LET id == heap.allocated + 1
        slot == SlotAfter([code |-> heap.last_error_code,
                           message |-> heap.last_error_message], call.effects)
    IN  [objects |->
             IF call.ok
             THEN {IF o.id = a
                   THEN [o EXCEPT !.tools = RegisterEntry(@, ToolName(call.objects[1]), id)]
                   ELSE o : o \in heap.objects}
                  \cup {Object(id, call.objects[1], a, 0, {})}
             ELSE heap.objects,
         allocated |-> IF call.ok THEN id ELSE heap.allocated,
         last_error_code |-> slot.code,
         last_error_message |-> slot.message,
         op |-> op, arg |-> NullModelConfig, model |-> 0, ok |-> call.ok,
         result |-> a,
         before |-> heap.objects]

\* luup_agent_enable_builtin_todo / _notes / _summarization on a handle that
\* may be nullptr.
enable_builtin(agent_null, enabled) ==
    IF agent_null
    THEN Fails("LUUP_ERROR_INVALID_PARAM", "LUUP_ERROR_INVALID_PARAM",
               <<"Invalid agent handle">>)
    ELSE enabled

\* delete agent: the agent goes, with its tools map; what the user_data
\* pointers of the entries point to is not deleted.
luup_agent_destroy(objects, a) == {o \in objects : o.id # a}

\* delete model: ~luup_model frees the backend data.
luup_model_destroy(objects, model) == {o \in objects : o.id # model /\ o.owner # model}

LifeLocalConfigs ==
    {NullModelConfig,
     ModelConfig(Null, 0, Null, Null),
     ModelConfig(Str(Empty), 0, Null, Null),
     ModelConfig(Str(<<"missing.gguf">>), 0, Null, Null),
     ModelConfig(Str(<<"broken.gguf">>), 0, Null, Null),
     ModelConfig(Str(<<"broken.gguf">>), -1, Null, Null),
     ModelConfig(Str(<<"huge.gguf">>), 0, Null, Null),
     ModelConfig(Str(<<"model.gguf">>), -1, Null, Null)}
LifeRemoteConfigs ==
    {NullModelConfig,
     ModelConfig(Null, 0, Str(<<"test-key">>), Null),
     ModelConfig(Str(Empty), 0, Str(<<"test-key">>), Null),
     ModelConfig(Str(<<"gpt-4">>), 0, Null, Null),
     ModelConfig(Str(<<"gpt-4">>), 0, Str(Empty), Null),
     ModelConfig(Str(<<"gpt-4">>), 0, Str(<<"test-key">>), Null),
     ModelConfig(Str(<<"gpt-4">>), 0, Str(<<"test-key">>), Str(Empty)),
     ModelConfig(Str(<<"llama2">>), 0, Str(<<"test-key">>), Str(LocalUrl))}
    \cup {ModelConfig(Str(<<"gpt-4">>), 0, Str(<<"test-key">>), Str(url)) : url \in MalformedUrls}

\* Nothing is allocated and the error slot is clear.
LifeInit == ErrorInit

CreateLocalModel ==
    \E cfg \in LifeLocalConfigs :
        /\ heap.allocated + 2 <= MaxObjects
        /\ heap' = Constructed("luup_model_create_local", cfg, luup_model_create_local(cfg), 0)
        /\ UNCHANGED <<agent, store, err>>

CreateRemoteModel ==
    \E cfg \in LifeRemoteConfigs :
        /\ heap.allocated + 2 <= MaxObjects
        /\ heap' = Constructed("luup_model_create_remote", cfg, luup_model_create_remote(cfg), 0)
        /\ UNCHANGED <<agent, store, err>>

\* config->model is nullptr (0) or a model that has not been destroyed.
CreateAgent ==
    \E config_null \in BOOLEAN, model \in {0} \cup LiveModels, builtin_tools \in BOOLEAN :
        /\ heap.allocated + 4 <= MaxObjects
        /\ heap' = Constructed("luup_agent_create",
                               [NullModelConfig EXCEPT !.null = config_null],
                               luup_agent_create(config_null, model = 0, builtin_tools),
                               model)
        /\ UNCHANGED <<agent, store, err>>

EnableTodo ==
    \E a \in {0} \cup LiveAgents :
        /\ heap.allocated + 1 <= MaxObjects
        /\ heap' = Enabled("luup_agent_enable_builtin_todo", a,
                           enable_builtin(a = 0, luup_agent_enable_builtin_todo))
        /\ UNCHANGED <<agent, store, err>>

EnableNotes ==
    \E a \in {0} \cup LiveAgents :
        /\ heap.allocated + 1 <= MaxObjects
        /\ heap' = Enabled("luup_agent_enable_builtin_notes", a,
                           enable_builtin(a = 0, luup_agent_enable_builtin_notes))
        /\ UNCHANGED <<agent, store, err>>

EnableSummarization ==
    \E a \in {0} \cup LiveAgents :
        /\ heap.allocated + 1 <= MaxObjects
        /\ heap' = Enabled("luup_agent_enable_builtin_summarization", a,
                           enable_builtin(a = 0, luup_agent_enable_builtin_summarization))
        /\ UNCHANGED <<agent, store, err>>

DestroyAgent ==
    \E a \in LiveAgents :
        /\ heap' = [heap EXCEPT !.objects = luup_agent_destroy(@, a),
                                !.op = "luup_agent_destroy",
                                !.arg = NullModelConfig,
                                !.model = 0,
                                !.ok = TRUE,
                                !.result = a,
                                !.before = heap.objects]
        /\ UNCHANGED <<agent, store, err>>

\* The caller destroys a model after the agents that point to it.
DestroyModel ==
    \E m \in LiveModels :
        /\ \A o \in heap.objects : o.model # m
        /\ heap' = [heap EXCEPT !.objects = luup_model_destroy(@, m),
                                !.op = "luup_model_destroy",
                                !.arg = NullModelConfig,
                                !.model = 0,
                                !.ok = TRUE,
                                !.result = m,
                                !.before = heap.objects]
        /\ UNCHANGED <<agent, store, err>>

LifeNext ==
    \/ CreateLocalModel
    \/ CreateRemoteModel
    \/ CreateAgent
    \/ EnableTodo
    \/ EnableNotes
    \/ EnableSummarization
    \/ DestroyAgent
    \/ DestroyModel

LifeSpec == LifeInit /\ [][LifeNext]_vars


Constructors == {"luup_model_create_local", "luup_model_create_remote", "luup_agent_create"}

\* The arguments the constructors must refuse.
RefusedConstruction ==
    CASE heap.op = "luup_model_create_local" -> heap.arg.null \/ heap.arg.path.null
      [] heap.op = "luup_model_create_remote" ->
             \/ heap.arg.null
             \/ heap.arg.path.null
             \/ heap.arg.path.s = Empty
             \/ heap.arg.api_key.null
             \/ heap.arg.api_key.s = Empty
             \/ (~heap.arg.api_base_url.null /\ heap.arg.api_base_url.s \in MalformedUrls)
      [] heap.op = "luup_agent_create" -> heap.arg.null \/ heap.model = 0
      [] OTHER -> FALSE

\* The handle is an object of the constructor's type with all its parts: a
\* model has its backend data, an agent points to the model it was given and
\* each of its tool entries points to a storage of its own.
FullyInitialised(handle) ==
    \E o \in heap.objects :
        /\ o.id = handle
        /\ o \notin heap.before
        /\ IF heap.op = "luup_agent_create"
           THEN /\ o.kind = "luup_agent"
                /\ o.model = heap.model
                /\ o.model \in {m.id : m \in {x \in heap.before : x.kind = "luup_model"}}
                /\ \A e \in o.tools :
                       \E st \in heap.objects :
                           st.id = e[2] /\ st.owner = handle /\ ToolName(st.kind) = e[1]
           ELSE /\ o.kind = "luup_model"
                /\ \E b \in heap.objects :
                       /\ b.owner = handle
                       /\ b.kind = IF heap.op = "luup_model_create_local"
                                   THEN "llama_backend_data" ELSE "openai_backend_data"

\* C24: a constructor returns a fully initialised handle, or returns nullptr
\* with the error slot set and the heap as it was before the call; a null
\* config, a null path, a null or empty API key, an empty model name, a
\* malformed endpoint URL, and for an agent a null config or a null model,
\* all give nullptr.
C24_ConstructionAllOrNothing ==
    heap.op \in Constructors =>
        /\ IF heap.result = 0
           THEN /\ ~heap.ok
                /\ heap.last_error_code # "LUUP_SUCCESS"
                /\ heap.last_error_message # Empty
                /\ heap.objects = heap.before
           ELSE heap.ok /\ FullyInitialised(heap.result)
        /\ RefusedConstruction => heap.result = 0

\* A remote model was refused for its endpoint URL while other objects were
\* allocated.
C24_Witness ==
    /\ heap.op = "luup_model_create_remote"
    /\ ~heap.arg.null
    /\ ~heap.arg.api_base_url.null
    /\ heap.arg.api_base_url.s = NotAValidUrl
    /\ heap.result = 0
    /\ heap.before # {}

\* C26: when luup_agent_destroy has returned, no object the agent allocated
\* for its built-in tools is still allocated, whether an entry of the agent's
\* tools pointed to it or the entry had been overwritten.
C26_DestroyReleasesStorages ==
    heap.op = "luup_agent_destroy" =>
        \A o \in heap.objects : ~(o.kind \in StorageKinds /\ o.owner = heap.result)


(***************************************************************************)
(* The history as JSON (agent.cpp, luup_agent_get_history_json).  A text   *)
(* is a sequence of pieces; a piece is a run of plain characters or one    *)
(* character that the serializer treats on its own.                        *)
(***************************************************************************)
\* Bytes that are not UTF-8: 0xE9 is Latin-1 for e-acute, 0xFF is no UTF-8 byte.
InvalidUtf8 == {"0xE9", "0xFF"}

\* serializer::dump_escaped: the quote, the backslash and the line feed are
\* written as two characters, everything else as it is.
RECURSIVE dump_escaped(_)
dump_escaped(s) ==
    IF s = << >> THEN << >>
    ELSE (CASE Head(s) = "\"" -> <<"\\", "\"">>
            [] Head(s) = "\\" -> <<"\\", "\\">>
            [] Head(s) = "\n" -> <<"\\", "n">>
            [] OTHER -> <<Head(s)>>)
         \o dump_escaped(Tail(s))

\* With the strict error handler, dump throws type_error.316 on a string
\* that is not UTF-8.
DumpThrows(s) == \E i \in 1..Len(s) : s[i] \in InvalidUtf8

\* history_json.dump(2): an array of objects with the keys in the order of
\* std::map, content before role.
DumpMessage(msg) ==
    <<"{", Indent(2), "\"", "content", "\"", ":", " ", "\"">> \o dump_escaped(msg.content)
    \o <<"\"", ",", Indent(2), "\"", "role", "\"", ":", " ", "\"">> \o dump_escaped(msg.role)
    \o <<"\"", Indent(1), "}">>

history_json_dump(agent_history) ==
    IF agent_history = << >> THEN <<"[", "]">>
    ELSE <<"[", Indent(1)>>
         \o Join([i \in 1..Len(agent_history) |-> DumpMessage(agent_history[i])],
                 <<",", Indent(1)>>)
         \o <<Indent(0), "]">>

\* The try block of luup_agent_get_history_json: the text, or nullptr when
\* dump threw.
get_history_json(agent_history) ==
    IF \E i \in 1..Len(agent_history) :
           DumpThrows(agent_history[i].role) \/ DumpThrows(agent_history[i].content)
    THEN [status |-> "null", text |-> Empty]
    ELSE [status |-> "text", text |-> history_json_dump(agent_history)]

\* Reading the text back with a JSON parser.  A string: from the piece
\* behind the opening quote to the closing quote, the escapes undone.
RECURSIVE ReadString(_, _, _)
ReadString(text, pos, sofar) ==
    IF pos > Len(text) THEN [ok |-> FALSE, val |-> Empty, next |-> 0]
    ELSE IF text[pos] = "\"" THEN [ok |-> TRUE, val |-> sofar, next |-> pos + 1]
    ELSE IF text[pos] = "\\"
    THEN IF pos + 1 > Len(text) THEN [ok |-> FALSE, val |-> Empty, next |-> 0]
         ELSE CASE text[pos + 1] = "\"" -> ReadString(text, pos + 2, Append(sofar, "\""))
                [] text[pos + 1] = "\\" -> ReadString(text, pos + 2, Append(sofar, "\\"))
                [] text[pos + 1] = "n" -> ReadString(text, pos + 2, Append(sofar, "\n"))
                [] OTHER -> [ok |-> FALSE, val |-> Empty, next |-> 0]
    ELSE IF text[pos] \in InvalidUtf8 \/ text[pos] = "\n"
    THEN [ok |-> FALSE, val |-> Empty, next |-> 0]
    ELSE ReadString(text, pos + 1, Append(sofar, text[pos]))

\* "key": "value" from the opening quote of the key.
ReadMember(text, pos) ==
    LET bad == [ok |-> FALSE, key |-> Empty, val |-> Empty, next |-> 0]
    IN  IF pos > Len(text) \/ text[pos] # "\"" THEN bad
        ELSE LET key == ReadString(text, pos + 1, Empty)
                 colon == SkipWs(text, key.next)
             IN  IF ~key.ok THEN bad
                 ELSE IF colon > Len(text) \/ text[colon] # ":" THEN bad
                 ELSE LET q == SkipWs(text, colon + 1)
                      IN  IF q > Len(text) \/ text[q] # "\"" THEN bad
                          ELSE LET val == ReadString(text, q + 1, Empty)
                               IN  IF ~val.ok THEN bad
                                   ELSE [ok |-> TRUE, key |-> key.val, val |-> val.val,
                                         next |-> val.next]

\* An object with exactly the two members role and content, in either order.
ReadMessage(text, pos) ==
    LET bad == [ok |-> FALSE, val |-> Message(Empty, Empty), next |-> 0]
    IN  IF pos > Len(text) \/ text[pos] # "{" THEN bad
        ELSE LET m1 == ReadMember(text, SkipWs(text, pos + 1))
                 comma == SkipWs(text, m1.next)
             IN  IF ~m1.ok \/ comma > Len(text) \/ text[comma] # "," THEN bad
                 ELSE LET m2 == ReadMember(text, SkipWs(text, comma + 1))
                          close == SkipWs(text, m2.next)
                      IN  IF ~m2.ok \/ close > Len(text) \/ text[close] # "}" THEN bad
                          ELSE IF m1.key = <<"content">> /\ m2.key = <<"role">>
                          THEN [ok |-> TRUE, val |-> Message(m2.val, m1.val),
                                next |-> close + 1]
                          ELSE IF m1.key = <<"role">> /\ m2.key = <<"content">>
                          THEN [ok |-> TRUE, val |-> Message(m1.val, m2.val),
                                next |-> close + 1]
                          ELSE bad

RECURSIVE ReadMessages(_, _, _)
ReadMessages(text, pos, sofar) ==
    LET msg == ReadMessage(text, pos)
        q == SkipWs(text, msg.next)
    IN  IF ~msg.ok \/ q > Len(text) THEN [ok |-> FALSE, val |-> << >>]
        ELSE IF text[q] = "]" THEN [ok |-> q = Len(text), val |-> Append(sofar, msg.val)]
        ELSE IF text[q] = ","
        THEN ReadMessages(text, SkipWs(text, q + 1), Append(sofar, msg.val))
        ELSE [ok |-> FALSE, val |-> << >>]

\* The (role, content) sequence of a history text.
ReadHistory(text) ==
    IF Len(text) < 2 \/ text[1] # "[" THEN [ok |-> FALSE, val |-> << >>]
    ELSE LET p == SkipWs(text, 2)
         IN  IF text[p] = "]" THEN [ok |-> p = Len(text), val |-> << >>]
             ELSE ReadMessages(text, p, << >>)

MaxJsonHistory == 2
JsonRoles == {<<"user">>, <<"assistant">>, <<"narrator">>, <<"my ", "\"", "role", "\"">>}
JsonContents ==
    {Empty,
     <<"Hello">>,
     <<"He said ", "\"", "hi", "\"", " and left">>,
     <<"C:", "\\", "temp", "\\", "n">>,
     <<"line one", "\n", "line two">>,
     <<"[{", "\"", "role", "\"", ": ", "\"", "user", "\"", "}]">>,
     <<"caf", "0xE9">>}

HistoryInit == ErrorInit

HistoryAdd ==
    /\ Len(history) < MaxJsonHistory
    /\ \E role \in JsonRoles, content \in JsonContents :
           history' = Append(history, Message(role, content))
    /\ last_op' = "add_message"
    /\ ret' = NoReturn
    /\ UNCHANGED <<store, err, heap, config, tools, sum_enabled, pc, stream, input,
                   user_message, response, next_call, tool_results, reentries, streamed,
                   log, sum_applied, hist0, last_reg, repertoire>>

HistoryClear ==
    /\ history' = clear_history(history, system_prompt)
    /\ last_op' = "clear_history"
    /\ ret' = NoReturn
    /\ UNCHANGED <<store, err, heap, config, tools, sum_enabled, pc, stream, input,
                   user_message, response, next_call, tool_results, reentries, streamed,
                   log, sum_applied, hist0, last_reg, repertoire>>

HistoryGet ==
    /\ ret' = get_history_json(history)
    /\ last_op' = "get_history_json"
    /\ UNCHANGED <<store, err, heap, config, history, tools, sum_enabled, pc, stream, input,
                   user_message, response, next_call, tool_results, reentries, streamed,
                   log, sum_applied, hist0, last_reg, repertoire>>

HistoryNext == HistoryAdd \/ HistoryClear \/ HistoryGet

HistorySpec == HistoryInit /\ [][HistoryNext]_vars

\* C25: luup_agent_get_history_json returns a text, the text read back is
\* the (role, content) sequence of the history, one object per message in
\* the order of the history.
C25_HistoryJsonRoundTrip ==
    last_op = "get_history_json" =>
        /\ ret.status = "text"
        /\ ReadHistory(ret.text).ok
        /\ ReadHistory(ret.text).val = history

\* The same for a history whose texts are UTF-8.
HistoryIsUtf8 ==
    \A i \in 1..Len(history) : ~DumpThrows(history[i].role) /\ ~DumpThrows(history[i].content)
RoundTripOfUtf8 == HistoryIsUtf8 => C25_HistoryJsonRoundTrip


(***************************************************************************)
(* Turns of respond on an agent with the built-in tools and earlier        *)
(* messages in its history, with history management on or off.             *)
(***************************************************************************)
MaxEarlier == 4

TurnInit ==
    /\ system_prompt \in Prompts
    /\ enable_tool_calling = TRUE
    /\ enable_history_management \in BOOLEAN
    /\ enable_builtin_tools = TRUE
    /\ \E n \in 0..MaxEarlier :
          history = InitialHistory(system_prompt) \o Alternating(n)
    /\ tools = BuiltinTools
    /\ is_local = TRUE
    /\ store = MemoryTodoStore
    /\ err = InitialErrors
    /\ heap = EmptyHeap
    /\ sum_enabled = TRUE
    /\ pc = "idle"
    /\ stream = FALSE
    /\ input = Empty
    /\ user_message = Empty
    /\ response = Empty
    /\ next_call = 1
    /\ tool_results = Empty
    /\ reentries = 0
    /\ ret = NoReturn
    /\ streamed = << >>
    /\ log = << >>
    /\ sum_applied = 0
    /\ hist0 = 0
    /\ last_op = "create"
    /\ last_reg = tools
    /\ repertoire = 1

\* The first half of respond, as RespondBegin, on a history of any length up
\* to the earlier messages.
TurnBegin ==
    /\ pc = "idle"
    /\ Len(history) <= MaxEarlier + 1
    /\ \E msg \in UserMessages, s \in BOOLEAN :
          /\ stream' = s
          /\ input' = msg
          /\ user_message' = msg
          /\ history' = IF enable_history_management
                        THEN Append(history, Message("user", msg))
                        ELSE history
    /\ hist0' = Len(history)
    /\ pc' = "generate"
    /\ response' = Empty
    /\ next_call' = 1
    /\ tool_results' = Empty
    /\ reentries' = 0
    /\ ret' = NoReturn
    /\ streamed' = << >>
    /\ log' = << >>
    /\ sum_applied' = 0
    /\ last_op' = "respond"
    /\ UNCHANGED <<store, err, heap, config, tools, sum_enabled, last_reg, repertoire>>

TurnNext ==
    \/ TurnBegin
    \/ GenerateFail
    \/ GenerateFinal
    \/ GenerateToolCalls
    \/ DispatchTool

TurnSpec == TurnInit /\ [][TurnNext]_vars


EarlierContents == {UserText50[1], AssistantText50[1]}

\* The first prompt of a turn with history off holds the user message, the
\* system prompt when there is one, and no earlier message.
OneShotPrompt ==
    (pc = "generate" /\ reentries = 0 /\ ~enable_history_management) =>
        /\ \A i \in 1..Len(PromptPassed) : PromptPassed[i] \notin EarlierContents
        /\ \E i \in 1..Len(PromptPassed) : PromptPassed[i] = user_message[1]
        /\ system_prompt # Empty =>
               \E i \in 1..Len(PromptPassed) : PromptPassed[i] = system_prompt[1]

\* C28: with history management off the history during and after a turn of
\* respond is the history before the turn, whatever the number of re-entries
\* and the outcome, and the first prompt is the one-shot prompt.
C28_OneShotKeepsHistory ==
    /\ (~enable_history_management /\ last_op = "respond") =>
          /\ Len(history) = hist0
          /\ \E n \in 0..MaxEarlier :
                history = InitialHistory(system_prompt) \o Alternating(n)
    /\ OneShotPrompt


\* The number of messages the claim has summarized: floor(0.6 n), at least 2.
\* The summary message apply_summarization builds from a summary text.
IsSummaryOf(m, summary_out) ==
    /\ summary_out.how = "text"
    /\ m = [role |-> "system", content |-> <<SummaryPrefix>> \o summary_out.text]
\* h2 is h with a prefix replaced: an optional first message of h, one
\* summary message, then a suffix of h in its order.
SummaryThenSuffix(h, h2) ==
    \E k \in 1..Len(h2) :
       /\ k <= 2
       /\ k = 2 => h2[1] = h[1]
       /\ h2[k].role = "system" /\ h2[k].content[1] = SummaryPrefix
       /\ Len(h2) - k <= Len(h)
       /\ SubSeq(h2, k + 1, Len(h2)) = SubSeq(h, Len(h) - (Len(h2) - k) + 1, Len(h))

\* C36: a call of the summarization tool on a non-empty history never makes
\* the history longer and never drops its most recent message, and when the
\* history was replaced the messages behind the summary are a suffix of the
\* old history in their order.
C36_SummarizationShrinks ==
    [][(last_op' = "summarization" /\ history # << >>)
          => /\ Len(history') <= Len(history)
             /\ history' # << >>
             /\ history'[Len(history')] = history[Len(history)]
             /\ history' # history => SummaryThenSuffix(history, history')]_vars

\* A history of a system prompt and three messages was summarized: the
\* length stayed at four and the last two messages were kept.
C36_Witness ==
    /\ last_op = "summarization" /\ sum_applied >= 1
    /\ hist0 = 4 /\ Len(history) = 4
    /\ history[1].role = "system" /\ history[1].content = system_prompt
    /\ history[2].role = "system" /\ history[2].content[1] = SummaryPrefix
    /\ history[4].role # "system"

\* The backend failed or gave no text when generate_summary called it.
NoSummary(summary_out) == summary_out.how # "text" \/ summary_out.text = Empty

\* C37: a call of the summarization tool leaves the history exactly as it was
\* when the backend fails or returns the empty text while summarizing, when
\* trigger is called with the tool disabled, and for the operations status,
\* enable and disable; so does every call that was just made with an
\* operation other than trigger or with the tool disabled.
C37_HistoryLeftAlone ==
    /\ \A operation \in SumOperations, summary_out \in SummaryRuns :
          LET r == summarization_tool_callback(SumParams(operation), history, sum_enabled,
                                               summary_out)
          IN  (\/ operation \in {"status", "enable", "disable"}
               \/ ~sum_enabled
               \/ NoSummary(summary_out))
              => r.history = history
    /\ (last_op = "summarization" /\ SumOperation(log[1].params) # "trigger")
          => Len(history) = hist0
    /\ (last_op = "summarization" /\ log[1].result
                = SumError("Summarization not enabled or agent invalid"))
          => Len(history) = hist0 /\ ~sum_enabled

\* Trigger was just called with the tool disabled on a history long enough to
\* be summarized, and was refused.
C37_Witness ==
    /\ last_op = "summarization" /\ ~sum_enabled
    /\ SumOperation(log[1].params) = "trigger"
    /\ log[1].result = SumError("Summarization not enabled or agent invalid")
    /\ Len(history) >= 10 /\ hist0 = Len(history)
    /\ apply_summarization(history, Returned(<<"S">>)) # history

SummarizedCount(n) == IF NumToSummarize(n) >= 2 THEN NumToSummarize(n) ELSE 2

\* The history the claim has after a summarization with the given summary:
\* the first k messages give way to one summary message, a system message at
\* position 0 stays.
ExpectedSummarized(hist, summary) ==
    (IF hist[1].role = "system" THEN <<hist[1]>> ELSE << >>)
    \o <<Message("system", <<SummaryPrefix>> \o summary)>>
    \o SubSeq(hist, SummarizedCount(Len(hist)) + 1, Len(hist))

\* C29: when the backend gives a summary, apply_summarization leaves a
\* history of at most two entries alone and turns every longer one, a
\* 3-entry history included, into the history with its first
\* k = max(floor(0.6 n), 2) messages summarized.
C29_SummarizesFromThree ==
    \A summary_out \in SummaryRuns :
        (summary_out.how = "text" /\ summary_out.text # Empty) =>
            IF Len(history) <= 2
            THEN apply_summarization(history, summary_out) = history
            ELSE apply_summarization(history, summary_out)
                     = ExpectedSummarized(history, summary_out.text)

\* The same for every length but three.
SummarizesFromFour == Len(history) # 3 => C29_SummarizesFromThree


(***************************************************************************)
(* parse_tool_calls on texts made of a beginning, a JSON object and an end. *)
(***************************************************************************)
ParseDocs ==
    {DocAdd, DocAddNope, DocDirect, DocNameOnly, DocBadSecond, DocNested, DocNestedParams}
ParseBeginnings == {Empty, <<"Calling: ">>, TextMalformed, TextNameOnly \o <<" then ">>}
ParseEnds == {Empty, <<" done">>, <<" ">> \o TextTrigger, <<" ">> \o TextDirect}
ParseTexts ==
    {b \o JDump(d) \o e : b \in ParseBeginnings, d \in ParseDocs, e \in ParseEnds}

\* The calls parse_tool_calls returned for the response.
ParsedEvent(calls) == [kind |-> "parsed", calls |-> calls]

ParseInit == ErrorInit

ParseToolCalls ==
    /\ \E text \in ParseTexts :
          /\ response' = text
          /\ log' = <<ParsedEvent(parse_tool_calls(text))>>
    /\ last_op' = "parse_tool_calls"
    /\ UNCHANGED <<store, err, heap, config, history, tools, sum_enabled, pc, stream, input,
                   user_message, next_call, tool_results, reentries, ret, streamed,
                   sum_applied, hist0, last_reg, repertoire>>

ParseNext == ParseToolCalls

ParseSpec == ParseInit /\ [][ParseNext]_vars

\* The JSON objects of a text that lie in no other object, from left to right.
RECURSIVE TopObjects(_, _)
TopObjects(text, pos) ==
    LET p == FindBrace(text, pos) IN
    IF p = 0 THEN << >>
    ELSE LET slice == extract_json(text, p) IN
         IF slice # Empty /\ JsonValid(slice)
         THEN <<JsonParse(slice)>> \o TopObjects(text, p + Len(slice))
         ELSE TopObjects(text, p + 1)

IsEnvelope(j) == JContains(j, "tool_calls") /\ JAt(j, "tool_calls").t = "arr"
IsDirectCall(j) == ~IsEnvelope(j) /\ JContains(j, "name") /\ JContains(j, "parameters")

\* The elements of an envelope (or the direct call itself) that have a name
\* and parameters.
CallElements(j) ==
    IF IsEnvelope(j)
    THEN SelectSeq(JAt(j, "tool_calls").kids,
                   LAMBDA c : JContains(c, "name") /\ JContains(c, "parameters"))
    ELSE <<j>>
WellFormedCalls(j) ==
    \A i \in 1..Len(CallElements(j)) : JAt(CallElements(j)[i], "name").t = "str"
CallsOf(j) ==
    LET good == SelectSeq(CallElements(j), LAMBDA c : JAt(c, "name").t = "str")
    IN  [i \in 1..Len(good) |->
            ToolCall(JAt(good[i], "name").s, JDump(JAt(good[i], "parameters")))]

\* a is b with some entries left out.
RECURSIVE IsSubsequence(_, _)
IsSubsequence(a, b) ==
    IF a = << >> THEN TRUE
    ELSE IF b = << >> THEN FALSE
    ELSE IF Head(a) = Head(b) THEN IsSubsequence(Tail(a), Tail(b))
    ELSE IsSubsequence(a, Tail(b))

\* C30: parse_tool_calls returns the calls of the leftmost object of the text
\* that is an envelope or a direct call, one per element with a name and
\* parameters, in order; nothing when there is no such object; and when an
\* element of the envelope is malformed, calls of that envelope only and
\* none of them twice.
C30_CallsOfLeftmostEnvelope ==
    last_op = "parse_tool_calls" =>
        LET objects == TopObjects(response, 1)
            matching == SelectSeq(objects, LAMBDA j : IsEnvelope(j) \/ IsDirectCall(j))
            calls == log[1].calls
        IN  IF matching = << >> THEN calls = << >>
            ELSE IF WellFormedCalls(matching[1]) THEN calls = CallsOf(matching[1])
            ELSE IsSubsequence(calls, CallsOf(matching[1]))

\* The same for the texts whose object is neither DocBadSecond nor DocNested.
ParsesPlainTexts ==
    (\A b \in ParseBeginnings, e \in ParseEnds :
        response \notin {b \o JDump(DocBadSecond) \o e, b \o JDump(DocNested) \o e})
    => C30_CallsOfLeftmostEnvelope

(***************************************************************************)
(* The context manager (context_manager.cpp): is_context_full on histories *)
(* that luup_agent_add_message built.                                      *)
(***************************************************************************)
\* A float threshold that is a binary fraction, as the quotient num / den.
Threshold(num, den) == [num |-> num, den |-> den]

\* is_context_full: the history is rendered, its size estimated, and the
\* estimate compared with context_size * threshold (exact in float for the
\* sizes and thresholds explored).
is_context_full(hist, context_size, threshold) ==
    LET formatted == format_chat_history(hist)
        estimated_tokens == estimate_token_count(formatted)
    IN  estimated_tokens * threshold.den >= context_size * threshold.num

MaxContextHistory == 2
ContextRoles == {"system", "user", "assistant", "tool"}
ContextContents == {Empty, <<"a">>, <<"Hi">>, <<"add">>, <<"name">>, <<"Hello">>}
ContextSizes == {4, 6, 8, 12, 16}
Thresholds == {Threshold(1, 2), Threshold(3, 4), Threshold(1, 1)}

\* What a call of is_context_full was given and what it answered.
ContextEvent(context_size, threshold, full) ==
    [kind |-> "is_context_full", context_size |-> context_size,
     threshold |-> threshold, full |-> full]

ContextInit == ErrorInit

ContextAdd ==
    /\ Len(history) < MaxContextHistory
    /\ \E role \in ContextRoles, content \in ContextContents :
           history' = Append(history, Message(role, content))
    /\ last_op' = "add_message"
    /\ log' = << >>
    /\ UNCHANGED <<store, err, heap, config, tools, sum_enabled, pc, stream, input,
                   user_message, response, next_call, tool_results, reentries, ret,
                   streamed, sum_applied, hist0, last_reg, repertoire>>

ContextClear ==
    /\ history' = clear_history(history, system_prompt)
    /\ last_op' = "clear_history"
    /\ log' = << >>
    /\ UNCHANGED <<store, err, heap, config, tools, sum_enabled, pc, stream, input,
                   user_message, response, next_call, tool_results, reentries, ret,
                   streamed, sum_applied, hist0, last_reg, repertoire>>

IsContextFull ==
    /\ \E context_size \in ContextSizes, threshold \in Thresholds :
           log' = <<ContextEvent(context_size, threshold,
                                 is_context_full(history, context_size, threshold))>>
    /\ last_op' = "is_context_full"
    /\ UNCHANGED <<store, err, heap, config, history, tools, sum_enabled, pc, stream, input,
                   user_message, response, next_call, tool_results, reentries, ret,
                   streamed, sum_applied, hist0, last_reg, repertoire>>

ContextNext == ContextAdd \/ ContextClear \/ IsContextFull

ContextSpec == ContextInit /\ [][ContextNext]_vars

\* The least number of tokens of four characters that hold c characters.
CeilQuarter(c) == (c + 3) \div 4
RenderedSize == Size(format_chat_history(history))

\* C32: the token estimate of the rendered history, of c characters, is
\* ceil(c / 4), and is_context_full answers true exactly when that estimate is
\* at least threshold * context_size.
C32_EstimateIsCeiling ==
    /\ estimate_token_count(format_chat_history(history)) = CeilQuarter(RenderedSize)
    /\ last_op = "is_context_full" =>
          (log[1].full <=> (CeilQuarter(RenderedSize) * log[1].threshold.den
                              >= log[1].context_size * log[1].threshold.num))

\* What holds instead: the estimate is c / 4 rounded down, and the answer
\* compares that estimate with threshold * context_size.
EstimateIsFloor ==
    /\ \E r \in 0..3 :
          4 * estimate_token_count(format_chat_history(history)) + r = RenderedSize
    /\ last_op = "is_context_full" =>
          (log[1].full <=> (4 * log[1].context_size * log[1].threshold.num
                              <= (RenderedSize - (RenderedSize % 4)) * log[1].threshold.den))


(***************************************************************************)
(* The remote backend's streaming generation (remote_api.cpp): the body of *)
(* the HTTP response is read as Server-Sent-Events lines.                  *)
(***************************************************************************)
\* parse_sse_data: the text behind the prefix "data: ", or the empty string.
parse_sse_data(line) ==
    IF line # << >> /\ line[1] = "data: " THEN Tail(line) ELSE Empty

\* extract_streaming_content: choices[0].delta.content of a chunk; the empty
\* string for [DONE], for a text that does not parse, for a chunk without the
\* member and for a content that is no string (json::exception, ignored).
extract_streaming_content(json_str) ==
    IF json_str = <<"[DONE]">> THEN Empty
    ELSE LET parsed == JParse(json_str)
         IN  IF ~parsed.ok \/ parsed.next # Len(json_str) + 1 THEN Empty
             ELSE LET j == parsed.val
                  IN  IF ~(JContains(j, "choices") /\ JAt(j, "choices").kids # << >>)
                      THEN Empty
                      ELSE LET choice == JAt(j, "choices").kids[1]
                           IN  IF JContains(choice, "delta")
                                  /\ JContains(JAt(choice, "delta"), "content")
                               THEN LET content == JAt(JAt(choice, "delta"), "content")
                                    IN  IF content.t = "str" /\ content.s # ""
                                        THEN <<content.s>>
                                        ELSE Empty
                               ELSE Empty

\* buffer.find('\n', pos), with buffer.size() for npos (positions from 1).
FindNewline(buffer, pos) ==
    IF \E i \in pos..Len(buffer) : buffer[i] = "\n"
    THEN CHOOSE i \in pos..Len(buffer) :
            buffer[i] = "\n" /\ \A k \in pos..(i - 1) : buffer[k] # "\n"
    ELSE Len(buffer) + 1

\* The loop of openai_backend_generate_stream over the lines of the body: the
\* tokens the callback is called with, in order.
RECURSIVE SseLoop(_, _, _)
SseLoop(buffer, pos, tokens) ==
    IF pos > Len(buffer) THEN tokens
    ELSE LET newline_pos == FindNewline(buffer, pos)
             line == SubSeq(buffer, pos, newline_pos - 1)
             data_str == parse_sse_data(line)
             content == extract_streaming_content(data_str)
         IN  SseLoop(buffer, newline_pos + 1,
                     IF line = << >> \/ line = <<"\r">> \/ data_str = Empty
                        \/ content = Empty
                     THEN tokens
                     ELSE Append(tokens, content))

\* What the HTTP client may hand back: no response, a status that is not
\* 200, or status 200.
HttpOutcomes == {"no_response", "status_500", "status_200"}

\* openai_backend_generate_stream from the response on: the tokens handed to
\* the callback, the value returned and the error reported.
openai_backend_generate_stream(http, body) ==
    IF http = "status_200"
    THEN [tokens |-> SseLoop(body, 1, << >>), ok |-> TRUE, error |-> "LUUP_SUCCESS"]
    ELSE [tokens |-> << >>, ok |-> FALSE, error |-> "LUUP_ERROR_HTTP_FAILED"]

MaxSseLines == 3
SseChunk(content) ==
    JObj(<<"choices">>, <<JArr(<<JObj(<<"delta">>, <<JObj(<<"content">>, <<content>>)>>)>>)>>)
DataLine(payload) == <<"data: ">> \o payload
LineHel == DataLine(JDump(SseChunk(JStr("hel"))))
LineLo == DataLine(JDump(SseChunk(JStr("lo"))))
LineEmptyContent == DataLine(JDump(SseChunk(JStr(""))))
LineNumberContent == DataLine(JDump(SseChunk(JNum("5"))))
LineNoChoice == DataLine(JDump(JObj(<<"choices">>, <<JArr(<< >>)>>)))
LineGarbled == DataLine(<<"{", "oops">>)
LineDone == DataLine(<<"[DONE]">>)
LineComment == <<": keep-alive">>
SseLines ==
    {LineHel, LineLo, LineEmptyContent, LineNumberContent, LineNoChoice, LineGarbled,
     LineDone, LineComment, << >>, <<"\r">>}

\* What a call of the streaming generation was answered with.
SseEvent(http, body) == [kind |-> "sse", http |-> http, body |-> body]

SseInit == ErrorInit

\* The server writes one more line of the stream.
SseWriteLine ==
    /\ Len(input) < MaxSseLines
    /\ \E line \in SseLines :
          /\ input' = Append(input, line)
          /\ response' = response \o line \o <<"\n">>
    /\ last_op' = "write_line"
    /\ streamed' = << >>
    /\ ret' = NoReturn
    /\ log' = << >>
    /\ UNCHANGED <<store, err, heap, config, history, tools, sum_enabled, pc, stream,
                   user_message, next_call, tool_results, reentries, sum_applied, hist0,
                   last_reg, repertoire>>

\* openai_backend_generate_stream on the stream written so far, whose last
\* line may lack its line feed.
GenerateStream ==
    /\ \E http \in HttpOutcomes,
          body \in {response} \cup (IF response = << >> THEN {}
                                    ELSE {SubSeq(response, 1, Len(response) - 1)}) :
          LET r == openai_backend_generate_stream(http, body)
          IN  /\ streamed' = r.tokens
              /\ ret' = [status |-> IF r.ok THEN "ok" ELSE "fail", text |-> Empty]
              /\ log' = <<SseEvent(http, body)>>
    /\ last_op' = "generate_stream"
    /\ UNCHANGED <<store, err, heap, config, history, tools, sum_enabled, pc, stream, input,
                   user_message, response, next_call, tool_results, reentries, sum_applied,
                   hist0, last_reg, repertoire>>

SseNext == SseWriteLine \/ GenerateStream

SseSpec == SseInit /\ [][SseNext]_vars

\* The content a written line carries for the callback, if any.
LineTokens(line) ==
    CASE line = LineHel -> <<<<"hel">>>>
      [] line = LineLo -> <<<<"lo">>>>
      [] OTHER -> << >>
\* The lines written before the first data: [DONE] line (all of them when
\* there is none).
BeforeDone(lines) ==
    IF \E i \in 1..Len(lines) : lines[i] = LineDone
    THEN SubSeq(lines, 1,
                (CHOOSE i \in 1..Len(lines) :
                    lines[i] = LineDone /\ \A k \in 1..(i - 1) : lines[k] # LineDone) - 1)
    ELSE lines
Streamed200 == last_op = "generate_stream" /\ log[1].http = "status_200"

\* C34: the data: [DONE] line ends the stream: the callback receives the
\* contents of the data: lines before it, in order, nothing of a line behind
\* it, and the operation returns success.
C34_DoneTerminates ==
    Streamed200 =>
        /\ ret.status = "ok"
        /\ streamed = Concat([i \in 1..Len(BeforeDone(input)) |->
                                 LineTokens(BeforeDone(input)[i])])

\* What holds instead: the [DONE] line is skipped like a line without content,
\* and the content of every data: line of the body is delivered in order.
DoneLineIsSkipped ==
    Streamed200 =>
        /\ ret.status = "ok"
        /\ streamed = Concat([i \in 1..Len(input) |-> LineTokens(input[i])])


(***************************************************************************)
(* Two built-in stores on one storage path: two agents with the same tool, *)
(* or the todo and the notes tool of one agent.  Both are made before the  *)
(* first call; each loads the file once, in its enable function.           *)
(***************************************************************************)
MaxSharedAdds == 2
SharedPath == "T"
\* The kinds of the first and of the second store.
SharedKinds == {<<"todo", "todo">>, <<"notes", "notes">>, <<"todo", "notes">>}
\* The file found at the path when the stores are made: none, or (for two
\* stores of one kind) a store of that kind with one item.
SeedFile(kind) ==
    FileOf(JDump2(JObj(<<StoreKey(kind)>>, <<JArr(<<StoredItem(kind, 1, "seed")>>)>>), 0))
SharedFiles(kinds) == IF kinds[1] = kinds[2] THEN {NoFile, SeedFile(kinds[1])} ELSE {NoFile}
\* The text the calls through the first and through the second store carry.
OwnText(who) == IF who = 1 THEN "X" ELSE "Y"
SharedTodoCalls(text) ==
    {JObj(<<"operation", "title">>, <<JStr("add"), JStr(text)>>),
     Op("list"), OpId("complete", 1), OpId("delete", 1), OpId("delete", 2)}
SharedNotesCalls(text) ==
    {JObj(<<"content", "operation">>, <<JStr(text), JStr("create")>>),
     Op("list"), OpId("delete", 1), OpId("delete", 2),
     JObj(<<"content", "id", "operation">>, <<JStr(text), JNum("1"), JStr("update")>>)}

SharedStores(kinds, storages, file, writable) ==
    [kinds |-> kinds, stores |-> storages, storage_path |-> SharedPath, file |-> file,
     writable |-> writable, last |-> 0, result |-> Empty, saved |-> FALSE, adds |-> 0]

SharedInit ==
    /\ system_prompt = Empty
    /\ enable_tool_calling = TRUE
    /\ enable_history_management = TRUE
    /\ enable_builtin_tools = FALSE
    /\ is_local = TRUE
    /\ history = InitialHistory(system_prompt)
    /\ tools = << >>
    /\ sum_enabled = TRUE
    /\ pc = "idle"
    /\ stream = FALSE
    /\ input = Empty
    /\ user_message = Empty
    /\ response = Empty
    /\ next_call = 1
    /\ tool_results = Empty
    /\ reentries = 0
    /\ ret = NoReturn
    /\ streamed = << >>
    /\ log = << >>
    /\ sum_applied = 0
    /\ hist0 = 0
    /\ last_op = "create"
    /\ last_reg = tools
    /\ repertoire = 1
    /\ \E kinds \in SharedKinds, writable \in BOOLEAN :
          \E file \in SharedFiles(kinds) :
             \E first \in load_from_file(kinds[1], NewStorage(kinds[1]), SharedPath, file),
                second \in load_from_file(kinds[2], NewStorage(kinds[2]), SharedPath, file) :
                store = SharedStores(kinds, <<first, second>>, file, writable)
    /\ err = InitialErrors
    /\ heap = EmptyHeap

\* One call of the callback of store who: its storage is replaced by what the
\* callback left, and save_to_file has run on the shared file if it was called.
SharedCall(who, o) ==
    LET kind == store.kinds[who]
        before == store.stores[who]
        grows == Len(StoredItems(o.data, kind)) > Len(StoredItems(before.data, kind))
    IN  /\ grows => store.adds < MaxSharedAdds
        /\ store' = [store EXCEPT
                        !.stores[who] = Storage(o.data, o.next_id),
                        !.file = IF o.saved
                                 THEN save_to_file(o.data, store.storage_path, store.file,
                                                   store.writable)
                                 ELSE @,
                        !.result = o.result,
                        !.saved = o.saved,
                        !.adds = IF grows THEN @ + 1 ELSE @,
                        !.last = IF o.saved THEN who ELSE @]
        /\ UNCHANGED <<agent, err, heap>>

SharedTodoCall ==
    \E who \in 1..2 :
       /\ store.kinds[who] = "todo"
       /\ \E params \in SharedTodoCalls(OwnText(who)) :
             \E o \in todo_tool_callback(JDump(params), store.stores[who]) :
                 SharedCall(who, o)

SharedNotesCall ==
    \E who \in 1..2 :
       /\ store.kinds[who] = "notes"
       /\ \E params \in SharedNotesCalls(OwnText(who)) :
             \E o \in notes_tool_callback(JDump(params), store.stores[who]) :
                 SharedCall(who, o)

SharedNext == SharedTodoCall \/ SharedNotesCall

SharedSpec == SharedInit /\ [][SharedNext]_vars

\* The title of a todo or the content of a note.
ItemText(item) ==
    IF JContains(item, "title") THEN JAt(item, "title").s
    ELSE IF JContains(item, "content") THEN JAt(item, "content").s
    ELSE ""
\* The items of the file at the shared path, read as a store of either kind.
FileItems ==
    IF store.file.exists /\ JParse(store.file.text).ok
    THEN LET doc == JParse(store.file.text).val
         IN  UNION {{doc.kids[k].kids[i] : i \in 1..Len(doc.kids[k].kids)} :
                       k \in {k \in 1..Len(doc.kids) : doc.kids[k].t = "arr"}}
    ELSE {}

\* C38: after any interleaving of mutations through two stores on one path,
\* the file is the dump of the in-memory state of the store that mutated
\* last, and it holds no item with the text added through the other store.
C38_LastWriterWins ==
    store.last # 0 =>
        /\ store.file = FileOf(JDump2(store.stores[store.last].data, 0))
        /\ \A item \in FileItems : ItemText(item) # OwnText(3 - store.last)

\* The same where the file can be opened for writing.
LastWriterWinsWhenWritten ==
    store.writable => C38_LastWriterWins

\* Both stores have added an item and the file holds the item of the second
\* store only.
SharedBothAdded ==
    /\ store.writable /\ store.last = 2 /\ store.adds = 2
    /\ LET items == StoredItems(store.stores[1].data, store.kinds[1])
       IN  \E i \in 1..Len(items) : ItemText(items[i]) = "X"
    /\ \E item \in FileItems : ItemText(item) = "Y"


(***************************************************************************)
(* The initialisation of the llama backend (local_llama.cpp).  The flag    *)
(* llama_initialized is a plain bool of the process, read and written      *)
(* without a lock by every thread that creates a local model.              *)
(***************************************************************************)
MaxCreates == 3

\* The state at program start when the given threads create models: the flag
\* is false and llama_backend_init() has not run.  inits counts the runs of
\* llama_backend_init() per thread, wrote holds the threads that have stored
\* the flag, seen is the value a thread read, calls counts the calls returned.
LlamaAtStart(threads) ==
    [threads |-> threads,
     llama_initialized |-> FALSE,
     inits |-> [t \in Threads |-> 0],
     wrote |-> {},
     pc |-> [t \in Threads |-> "idle"],
     seen |-> [t \in Threads |-> FALSE],
     calls |-> [t \in Threads |-> 0]]

\* The values the read of the flag by thread t can yield.  A thread reads its
\* own store; the store of another thread is not ordered before the read (a
\* data race), so the read yields the stored value or the older one.
FlagReads(llama, t) ==
    {llama.llama_initialized} \cup (IF t \in llama.wrote THEN {} ELSE {FALSE})

LlamaInit ==
    /\ system_prompt = Empty
    /\ enable_tool_calling = TRUE
    /\ enable_history_management = TRUE
    /\ enable_builtin_tools = FALSE
    /\ is_local = TRUE
    /\ history = InitialHistory(system_prompt)
    /\ tools = << >>
    /\ sum_enabled = TRUE
    /\ pc = "idle"
    /\ stream = FALSE
    /\ input = Empty
    /\ user_message = Empty
    /\ response = Empty
    /\ next_call = 1
    /\ tool_results = Empty
    /\ reentries = 0
    /\ ret = NoReturn
    /\ streamed = << >>
    /\ log = << >>
    /\ sum_applied = 0
    /\ hist0 = 0
    /\ last_op = "create"
    /\ last_reg = tools
    /\ repertoire = 1
    /\ store = MemoryTodoStore
    /\ err = InitialErrors
    /\ \E threads \in {{1}, Threads} : heap = LlamaAtStart(threads)

\* luup_model_create_local reaches llama_backend_init(model_path, ...), whose
\* first statement is the call of ensure_llama_initialized.
CreateLocalCall ==
    \E t \in heap.threads :
        /\ heap.pc[t] = "idle"
        /\ heap.calls[t] < MaxCreates
        /\ heap' = [heap EXCEPT !.pc[t] = "check"]
        /\ UNCHANGED <<agent, store, err>>

\* local_llama.cpp:47: the flag is read; when it is set the rest of
\* llama_backend_init(model_path, ...) runs and the call returns.
CheckLlamaInitialized ==
    \E t \in heap.threads :
        /\ heap.pc[t] = "check"
        /\ \E value \in FlagReads(heap, t) :
              heap' = [heap EXCEPT !.seen[t] = value,
                                   !.pc[t] = IF value THEN "idle" ELSE "init",
                                   !.calls[t] = IF value THEN @ + 1 ELSE @]
        /\ UNCHANGED <<agent, store, err>>

\* local_llama.cpp:48
LlamaBackendInit ==
    \E t \in heap.threads :
        /\ heap.pc[t] = "init"
        /\ heap' = [heap EXCEPT !.inits[t] = @ + 1, !.pc[t] = "set"]
        /\ UNCHANGED <<agent, store, err>>

\* local_llama.cpp:49, then the rest of llama_backend_init(model_path, ...).
SetLlamaInitialized ==
    \E t \in heap.threads :
        /\ heap.pc[t] = "set"
        /\ heap' = [heap EXCEPT !.llama_initialized = TRUE,
                                !.wrote = @ \cup {t},
                                !.pc[t] = "idle",
                                !.calls[t] = @ + 1]
        /\ UNCHANGED <<agent, store, err>>

LlamaNext ==
    \/ CreateLocalCall
    \/ CheckLlamaInitialized
    \/ LlamaBackendInit
    \/ SetLlamaInitialized

LlamaSpec == LlamaInit /\ [][LlamaNext]_vars

\* The runs of llama_backend_init() in the process.
BackendInits == heap.inits[1] + heap.inits[2]

\* C39: the initialisation of the llama backend behind llama_initialized
\* runs at most once, for every interleaving of luup_model_create_local
\* calls made on different threads.
C39_InitializedOnce ==
    BackendInits <= 1

\* With one calling thread the initialisation runs once, and on two threads
\* it runs at most once on each.
InitializedOncePerThread ==
    /\ \A t \in Threads : heap.inits[t] <= 1
    /\ heap.threads = {1} => BackendInits <= 1
    /\ \A t \in Threads : heap.calls[t] > 0 => BackendInits >= 1


(***************************************************************************)
(* A callback that calls the library (error_handling.cpp).  luup_set_error *)
(* calls global_error_callback while its lock_guard holds callback_mutex,  *)
(* a std::mutex: a call made by the callback on the same thread that locks *)
(* callback_mutex locks a mutex the thread owns.                           *)
(***************************************************************************)
\* What the callback calls: luup_set_error_callback with a registration, or
\* an operation that fails (luup_agent_get_history_json(nullptr)).
ReentrantCalls ==
    {[op |-> "luup_set_error_callback", arg |-> registration,
      call |-> Call(TRUE, "none", << >>, << >>)] : registration \in Registrations}
    \cup {[op |-> "luup_agent_get_history_json", arg |-> NoCallback,
           call |-> luup_agent_get_history_json(TRUE)]}

\* std::mutex::lock by the thread that owns the mutex is undefined: the
\* thread waits for itself for ever, or the lock throws std::system_error
\* (resource_deadlock_would_occur) and the lock_guard of luup_set_error
\* releases the mutex while the exception leaves luup_set_error.
RelockOutcomes == {"deadlock", "system_error"}

\* error_handling.cpp:69-70: the callback is called and calls the library;
\* the call runs up to the lock of callback_mutex (error_handling.cpp:47 for
\* luup_set_error_callback; 56-68 for a report, which first writes the slot).
InvokeReentrantCallback ==
    \E t \in err.threads, nested \in ReentrantCalls :
        /\ err.pc[t] = "call"
        /\ err.global_error_callback # "null"
        /\ LET invoked == [fn |-> err.global_error_callback,
                           ud |-> err.global_error_callback_user_data,
                           code |-> err.last_error_code[t],
                           message |-> err.last_error_message[t]]
               slot == IF nested.call.effects = << >>
                       THEN [code |-> err.last_error_code[t],
                             message |-> err.last_error_message[t]]
                       ELSE luup_set_error(Head(nested.call.effects).code,
                                           Head(nested.call.effects).message)
           IN  err' = [err EXCEPT !.invoked[t] = Append(@, invoked),
                                  !.pc[t] = "relock",
                                  !.op[t] = nested.op,
                                  !.arg[t] = nested.arg,
                                  !.last_error_code[t] = slot.code,
                                  !.last_error_message[t] = slot.message]
        /\ UNCHANGED <<agent, store, heap>>

\* error_handling.cpp:47 and 68, reached from the callback: the lock_guard
\* locks callback_mutex, which the thread holds.
RelockOwned ==
    \E t \in err.threads, outcome \in RelockOutcomes :
        /\ err.pc[t] = "relock"
        /\ err.callback_mutex = t
        /\ err' = [err EXCEPT !.pc[t] = outcome,
                              !.callback_mutex = IF outcome = "deadlock" THEN t ELSE 0]
        /\ UNCHANGED <<agent, store, heap>>

ReentrantNext ==
    \/ AgentClearHistory
    \/ SetErrorCallback
    \/ LockForRegistration
    \/ StoreCallback
    \/ StoreUserData
    \/ LockForReport
    \/ InvokeCallback
    \/ InvokeReentrantCallback
    \/ RelockOwned

ReentrantSpec == CallbackInit /\ [][ReentrantNext]_vars

\* Thread t is in a report that cannot return: inside the callback, at the
\* lock of the mutex it holds, or past it with one of the outcomes.
ReportStuck(t) == err.pc[t] \in {"relock"} \cup RelockOutcomes

\* C40: reporting an error always completes: luup_set_error returns after
\* the callback, also when the callback calls luup_set_error_callback or an
\* operation that reports an error on the same thread; no thread is left at
\* the lock of callback_mutex by a lock it holds itself.
C40_ReportCompletes ==
    \A t \in err.threads : ~ReportStuck(t)

\* A report is stuck only where the callback called the library: the thread
\* had the mutex and a callback when it got there, and a thread that waits
\* for itself keeps the mutex, so that no other report or registration
\* passes the lock.
StuckOnlyByReentry ==
    \A t \in err.threads :
        /\ ReportStuck(t) =>
              /\ err.invoked[t] # << >>
              /\ err.invoked[t][Len(err.invoked[t])].fn # "null"
              /\ err.op[t] \in {"luup_set_error_callback", "luup_agent_get_history_json"}
        /\ err.pc[t] \in {"relock", "deadlock"} => err.callback_mutex = t
        /\ err.pc[t] \in {"reg_fn", "reg_ud", "call"} => err.callback_mutex = t


====
